---------------------------- MODULE Spec2Model ----------------------------
(***************************************************************************)
(* A model of the hang analyzer of buildscripts/resmokelib:                *)
(*   hang_analyzer/process_list.py  get_processes, get_lister, _pname_match *)
(*   commands/hang_analyzer.py      check_dump_quota, signal_*, execute    *)
(*   hang_analyzer/dumper.py        get_dumpers, dump_info, call           *)
(* Python strings are sequences of one-character strings, so that lower(), *)
(* splitext(), startswith() and the `in` substring test are computed.      *)
(***************************************************************************)
EXTENDS Integers, Sequences, FiniteSets, TLC

VARIABLES
    platform,               \* sys.platform
    ps_runs,                \* whether the enumeration tool can be run (callo does not raise)
    selfPid,                \* os.getpid()
    table,                  \* what ps.dump_processes returns: a list of [pid, name]
    process_ids,            \* HangAnalyzer.process_ids
    interesting_processes,  \* HangAnalyzer.interesting_processes
    go_processes,           \* HangAnalyzer.go_processes
    process_match,          \* options.process_match
    dump_core,              \* options.dump_core
    tools,                  \* the debugger tools of the host: where they are, how they exit
    archive,                \* mongo-debugsymbols.tgz of the working directory
    pc,                     \* the position of the run
    symbols,                \* what extract_debug_symbols logged last
    dumpers,                \* what get_dumpers returned
    processes,              \* the list get_processes returned
    missing_pids,           \* the pids get_processes warned about
    todo,                   \* what is left of the list a for loop iterates
    trace,                  \* the actions taken on other processes, in order
    trapped_exceptions,     \* execute's local list of recorded failures
    outcome,                \* how execute ended
    log,                    \* the messages logged, in order
    files,                  \* the working directory: file name -> size
    quota,                  \* check_dump_quota's argument quota
    checks,                 \* the check_dump_quota calls made: <<files seen, result>>
    process_logger,         \* the logger get_process_logger returned
    invocation,             \* a call(args, logger) in progress: the caller, the
                            \* child process and the reader of its output
    handler,                \* a FixtureTeardownHandler and the fixtures it tears down
    retry,                  \* a ReplFixture.retry_until_wtimeout call in progress
    registry                \* logging/loggers.py: REGISTRY and the loggers made

vars == <<platform, ps_runs, selfPid, table, process_ids, interesting_processes,
          go_processes, process_match, dump_core, tools, archive, pc, symbols,
          dumpers, processes, missing_pids, todo, trace, trapped_exceptions, outcome,
          log, files, quota, checks, process_logger, invocation, handler, retry,
          registry>>

runVars == <<pc, symbols, dumpers, processes, missing_pids, todo, trace,
            trapped_exceptions, outcome, log>>
configVars == <<platform, ps_runs, selfPid, table, process_ids, interesting_processes,
                go_processes, process_match, dump_core, tools, archive>>
quotaVars == <<files, quota, checks>>
callVars == <<process_logger, invocation>>
libVars == <<handler, retry, registry>>

---------------------------------------------------------------------------
(* Bounds of the model. *)

\* The longest process table the lister returns.
MaxProcs == 2
\* Process ids are 1..MaxPid.
MaxPid == 3

Pids == 1..MaxPid

---------------------------------------------------------------------------
(* Python strings and lists. *)

UpperChars == <<"A","B","C","D","E","F","G","H","I","J","K","L","M",
                "N","O","P","Q","R","S","T","U","V","W","X","Y","Z">>
LowerChars == <<"a","b","c","d","e","f","g","h","i","j","k","l","m",
                "n","o","p","q","r","s","t","u","v","w","x","y","z">>

\* str.lower() on one character.
LowerChar(c) ==
    IF \E i \in 1..Len(UpperChars) : UpperChars[i] = c
    THEN LowerChars[CHOOSE i \in 1..Len(UpperChars) : UpperChars[i] = c]
    ELSE c

\* str.lower()
Lower(s) == [i \in 1..Len(s) |-> LowerChar(s[i])]

\* s.startswith(prefix)
StartsWith(s, prefix) ==
    /\ Len(prefix) <= Len(s)
    /\ SubSeq(s, 1, Len(prefix)) = prefix

\* s.endswith(suffix)
EndsWith(s, suffix) ==
    /\ Len(suffix) <= Len(s)
    /\ SubSeq(s, Len(s) - Len(suffix) + 1, Len(s)) = suffix

\* `ip in pname` on strings: ip occurs in pname as a substring.
Contains(pname, ip) ==
    \E i \in 0..(Len(pname) - Len(ip)) : SubSeq(pname, i + 1, i + Len(ip)) = ip

\* `x in lst` on lists.
InList(x, lst) == \E i \in 1..Len(lst) : lst[i] = x

\* str.rfind(ch) as a 1-based index, 0 when ch does not occur.
RFind(s, ch) ==
    IF \E i \in 1..Len(s) : s[i] = ch
    THEN CHOOSE i \in 1..Len(s) : s[i] = ch /\ \A j \in (i + 1)..Len(s) : s[j] # ch
    ELSE 0

\* os.path.splitext(p)[0]: the extension starts at the last dot after the last
\* separator, unless only dots precede it in the file name.
SplitExtRoot(p) ==
    LET sepIndex == RFind(p, "/")
        dotIndex == RFind(p, ".")
    IN  IF /\ dotIndex > sepIndex
           /\ \E k \in (sepIndex + 1)..(dotIndex - 1) : p[k] # "."
        THEN SubSeq(p, 1, dotIndex - 1)
        ELSE p

---------------------------------------------------------------------------
(* The names of the model. *)

s_python  == <<"p","y","t","h","o","n">>
s_java    == <<"j","a","v","a">>
s_mongo   == <<"m","o","n","g","o">>
s_mongod  == <<"m","o","n","g","o","d">>
s_mongos  == <<"m","o","n","g","o","s">>
s_test    == <<"_","t","e","s","t">>
s_dbtest  == <<"d","b","t","e","s","t">>
s_Python3 == <<"P","y","t","h","o","n","3">>
s_python3 == <<"p","y","t","h","o","n","3">>
s_mongod_exe == <<"m","o","n","g","o","d",".","e","x","e">>
s_mongodump  == <<"m","o","n","g","o","d","u","m","p">>
s_core == <<"c","o","r","e">>
s_mdmp == <<"m","d","m","p">>

\* The process names the operating system reports.
RawNames == {s_Python3, s_java, s_mongod_exe, s_mongodump}

\* HangAnalyzer.__init__'s default interesting_processes.
DefaultInteresting == <<s_mongo, s_mongod, s_mongos, s_test, s_dbtest, s_python, s_java>>

---------------------------------------------------------------------------
(* process_list.py *)

\* _pname_match: True iff pname, its extension stripped, matches one of
\* interesting_processes. `and` binds tighter than `or`.
RECURSIVE pname_match_loop(_, _, _)
pname_match_loop(match_type, pname, ips) ==
    IF ips = <<>> THEN FALSE
    ELSE LET ip == Head(ips)
         IN  IF \/ (match_type = "exact" /\ pname = ip)
                \/ (match_type = "contains" /\ Contains(pname, ip))
             THEN TRUE
             ELSE pname_match_loop(match_type, pname, Tail(ips))

\* _pname_match without line 213: the extension is not stripped.
pname_match_unstripped(match_type, pname, ips) ==
    pname_match_loop(match_type, pname, ips)

pname_match(match_type, pname, ips) ==
    pname_match_loop(match_type, SplitExtRoot(pname), ips)

\* get_processes without line 34.
Canonical_raw(all_processes) ==
    [i \in 1..Len(all_processes) |-> <<all_processes[i][1], all_processes[i][2]>>]

\* get_processes, line 34: the names are canonicalized to lower case.
Canonical(all_processes) ==
    [i \in 1..Len(all_processes) |->
        <<all_processes[i][1], Lower(all_processes[i][2])>>]

\* The guard of the comprehension of lines 37-38.
KeepByPid(p, ids, self) == InList(p[1], ids) /\ p[1] # self

\* The guard of lines 46-49 without `and pid != os.getpid()`.
KeepByName_self(p, match, ips, self) == pname_match(match, p[2], ips)

\* The guard of the comprehension of lines 46-49.
KeepByName(p, match, ips, self) == pname_match(match, p[2], ips) /\ p[1] # self

\* get_processes with every requested pid reported as not running.
MissingPids_all_requested(all, ids) == {ids[i] : i \in 1..Len(ids)}

\* get_processes, lines 40-41.
MissingPids(all, ids) ==
    {ids[i] : i \in 1..Len(ids)} \ {all[i][1] : i \in 1..Len(all)}

\* A logged message: the logger method called and the format string.
Logged(level, msg) == [level |-> level, msg |-> msg]

\* get_processes, lines 42-44: the warning, issued iff the set is not empty.
MissingWarning(missing) ==
    IF missing # {}
    THEN <<Logged("warning", "The following requested process ids are not running")>>
    ELSE <<>>

\* get_processes with the name test applied to the explicit pids as well.
get_processes_names_too(all_processes, ids, ips, match, self) ==
    LET all == Canonical(all_processes)
    IN  [processes |-> SelectSeq(all, LAMBDA p :
                          /\ KeepByName(p, match, ips, self)
                          /\ (ids # <<>> => KeepByPid(p, ids, self))),
         missing   |-> IF ids # <<>> THEN MissingPids(all, ids) ELSE {},
         log       |-> IF ids # <<>> THEN MissingWarning(MissingPids(all, ids))
                       ELSE <<>>]

\* get_processes with the name list taking priority over the explicit pids.
get_processes_names_first(all_processes, ids, ips, match, self) ==
    LET all == Canonical(all_processes)
    IN  IF ips = <<>>
        THEN [processes |-> SelectSeq(all, LAMBDA p : KeepByPid(p, ids, self)),
              missing   |-> MissingPids(all, ids),
              log       |-> MissingWarning(MissingPids(all, ids))]
        ELSE [processes |-> SelectSeq(all, LAMBDA p : KeepByName(p, match, ips, self)),
              missing   |-> {},
              log       |-> <<>>]

\* get_processes, lines 32-52, given what ps.dump_processes returned.
get_processes(all_processes, ids, ips, match, self) ==
    LET all == Canonical(all_processes)
    IN  IF ids # <<>>
        THEN [processes |-> SelectSeq(all, LAMBDA p : KeepByPid(p, ids, self)),
              missing   |-> MissingPids(all, ids),
              log       |-> MissingWarning(MissingPids(all, ids))]
        ELSE [processes |-> SelectSeq(all, LAMBDA p : KeepByName(p, match, ips, self)),
              missing   |-> {},
              log       |-> <<>>]

---------------------------------------------------------------------------
(* The inputs of a run. *)

\* The values of sys.platform of the model; "freebsd" stands for every platform
\* get_lister and get_dumpers do not name.
Platforms == {"linux", "sunos", "win32", "cygwin", "darwin", "freebsd"}

\* The process tables: at most MaxProcs processes, each pid once, listed by
\* increasing pid as ps and tasklist list them.
Tables ==
    UNION {{t \in [1..n -> Pids \X RawNames] :
                \A i, j \in 1..n : i < j => t[i][1] < t[j][1]} : n \in 0..MaxProcs}

\* HangAnalyzer._configure_processes: None is the option not given; the lists
\* are the option strings split at the commas.
configure_processes(opt_ids, opt_names, opt_go) ==
    LET names == IF opt_names = "None" THEN DefaultInteresting ELSE opt_names
        go    == IF opt_go = "None" THEN <<>> ELSE opt_go
    IN  [process_ids |-> IF opt_ids = "None" THEN <<>> ELSE opt_ids,
         interesting_processes |-> names \o go,
         go_processes |-> go]

---------------------------------------------------------------------------
(* process_list.py: the lister. *)

\* get_lister, lines 57-66: the platforms a lister exists for.
ListerPlatforms == {"linux", "sunos", "win32", "cygwin", "darwin"}

\* An enumeration whose failure is swallowed.
EnumerationError_swallowed(plat, runs) == ""

\* get_processes, lines 28-30: "OSError" on a platform without a lister, the
\* error of the enumeration tool when it cannot be run, "" otherwise.
EnumerationError(plat, runs) ==
    IF plat \notin ListerPlatforms THEN "OSError"
    ELSE IF ~runs THEN "SubprocessError"
    ELSE ""

---------------------------------------------------------------------------
(* dumper.py: get_dumpers, lines 12-30. *)

get_dumpers(plat) ==
    IF plat \in {"linux", "sunos"} THEN <<"GDBDumper", "JstackDumper">>
    ELSE IF plat \in {"win32", "cygwin"} THEN <<"WindowsDumper", "JstackWindowsDumper">>
    ELSE IF plat = "darwin" THEN <<"LLDBDumper", "JstackDumper">>
    ELSE <<"None", "None">>

---------------------------------------------------------------------------
(* dumper.py: the tools and the subprocess helpers. *)

\* The largest exit code of a tool.
MaxExit == 2
ExitCodes == 0..MaxExit

\* "".join(s) of a list of one-character strings, and sep.join(list).
RECURSIVE Str(_)
Str(s) == IF s = <<>> THEN "" ELSE Head(s) \o Str(Tail(s))

RECURSIVE Join(_, _)
Join(list, sep) ==
    IF list = <<>> THEN ""
    ELSE IF Len(list) = 1 THEN Head(list)
    ELSE Head(list) \o sep \o Join(Tail(list), sep)

\* The directories of a host a program is looked for in: the two the dumpers
\* name (lines 127, 202 and 325), the one directory of the PATH, which is none
\* of them, and the debugger directories of the Windows Kits (lines 65-68),
\* most recent first.
d_toolchain == "/opt/mongodbtoolchain/gdb/bin"
d_usr_bin == "/usr/bin"
PathDir == "/usr/local/bin"
WindowsKits == <<"10", "8.1", "8.0">>
KitDir(version) == "C:/Program Files (x86)/Windows Kits/" \o version \o "/Debuggers/x64"
KitDirs == {KitDir(WindowsKits[i]) : i \in 1..Len(WindowsKits)}

\* os.path.join(loc, prog)
PathJoin(loc, prog) == loc \o "/" \o prog

\* os.path.exists(full_prog) for a program file, and whether Popen finds the
\* file it is to run: t.has is the set of directories that hold the program.
ProgramExists(full_prog, prog, t) == \E loc \in t.has : full_prog = PathJoin(loc, prog)

\* distutils.spawn.find_executable(prog): the program in a directory of the
\* PATH, None when there is none.
find_executable(prog, t) ==
    IF PathDir \in t.has THEN PathJoin(PathDir, prog) ELSE "None"

\* What `lldb --version` prints: the LLVM build, XCode 7.2, an older XCode.
s_lldb_llvm == <<"l","l","d","b"," ","v","e","r","s","i","o","n"," ","3",".","7",".","0">>
s_lldb_340  == <<"l","l","d","b","-","3","4","0",".","4",".","1","1","9">>
s_lldb_300  == <<"l","l","d","b","-","3","0","0",".","2",".","5","1">>
LldbVersions == {s_lldb_llvm, s_lldb_340, s_lldb_300}

\* s.index(sub): the first position of sub in s, from 0; sub is in s.
Index(s, sub) ==
    (CHOOSE i \in 1..Len(s) :
        /\ SubSeq(s, i, i + Len(sub) - 1) = sub
        /\ \A j \in 1..(i - 1) : SubSeq(s, j, j + Len(sub) - 1) # sub) - 1

\* int(s) of a string of decimal digits, and str(n) of a natural number.
Digits == <<"0","1","2","3","4","5","6","7","8","9">>
RECURSIVE StrInt(_)
StrInt(n) ==
    IF n < 10 THEN <<Digits[n + 1]>>
    ELSE StrInt(n \div 10) \o <<Digits[(n % 10) + 1]>>
RECURSIVE Int_(_)
Int_(s) ==
    IF s = <<>> THEN 0
    ELSE 10 * Int_(SubSeq(s, 1, Len(s) - 1))
            + ((CHOOSE d \in 1..10 : Digits[d] = s[Len(s)]) - 1)

\* LLDBDumper.dump_info, lines 150-154: the major version of an XCode lldb.
lldb_major_version(lldb_version) ==
    LET s_lldb == <<"l","l","d","b","-">>
        from == SubSeq(lldb_version, Index(lldb_version, s_lldb) + 1, Len(lldb_version))
        rest == SubSeq(from, Len(s_lldb) + 1, Len(from))
    IN  Int_(SubSeq(rest, 1, Index(rest, <<".">>)))

\* find_program that looks on the PATH before the directories.
find_program_path_first(prog, paths, t) ==
    LET at == {i \in 1..Len(paths) : paths[i] \in t.has}
    IN  IF find_executable(prog, t) # "None" THEN find_executable(prog, t)
        ELSE IF at # {}
        THEN PathJoin(paths[CHOOSE i \in at : \A j \in at : i <= j], prog)
        ELSE "None"

\* find_program(prog, paths), lines 371-378: the program in the first listed
\* directory that holds it, else what spawn.find_executable finds on the PATH.
RECURSIVE find_program(_, _, _)
find_program(prog, paths, t) ==
    IF paths = <<>> THEN find_executable(prog, t)
    ELSE IF ProgramExists(PathJoin(Head(paths), prog), prog, t)
    THEN PathJoin(Head(paths), prog)
    ELSE find_program(prog, Tail(paths), t)

\* WindowsDumper.__find_debugger, lines 52-75: the PATH is searched first
\* (line 55), then the directories of the Windows Kits in the order 10, 8.1,
\* 8.0; line 72 tests the directory (t.dirs is the set of those that exist),
\* not the debugger in it.
WindowsDumper_find_debugger(debugger, t) ==
    LET cdb == find_executable(debugger, t)
        debugger_paths == [i \in 1..Len(WindowsKits) |-> KitDir(WindowsKits[i])]
        there == {i \in 1..Len(debugger_paths) : debugger_paths[i] \in t.dirs}
    IN  IF cdb # "None" THEN cdb
        ELSE IF there # {}
        THEN PathJoin(debugger_paths[CHOOSE i \in there : \A j \in there : i <= j],
                      debugger)
        ELSE "None"

\* The exception call raises on a non-zero exit code, line 368.
BadExitCode(ret, args) ==
    "Bad exit code " \o ToString(ret) \o " from " \o Join(args, " ")

\* call without the test of lines 366-368.
call_unchecked(args, cmds, pid, exists, ret) ==
    [event  |-> [op |-> "Popen", what |-> args, cmds |-> cmds, pid |-> pid,
                 result |-> IF exists THEN "exited" ELSE "FileNotFoundError",
                 ret |-> IF exists THEN ret ELSE -1, slept |-> FALSE],
     log    |-> <<Logged("info", Join(args, " "))>>,
     raised |-> IF ~exists THEN "FileNotFoundError" ELSE ""]

\* call(args, logger), lines 354-368: Popen raises when the program file is not
\* there; the exit code ret of the program is logged and raised when not 0.
\* cmds is the script the arguments were built from.
call(args, cmds, pid, exists, ret) ==
    [event  |-> [op |-> "Popen", what |-> args, cmds |-> cmds, pid |-> pid,
                 result |-> IF exists THEN "exited" ELSE "FileNotFoundError",
                 ret |-> IF exists THEN ret ELSE -1, slept |-> FALSE],
     log    |-> <<Logged("info", Join(args, " "))>> \o
                (IF exists /\ ret # 0
                 THEN <<Logged("error", "Bad exit code " \o ToString(ret))>>
                 ELSE <<>>),
     raised |-> IF ~exists THEN "FileNotFoundError"
                ELSE IF ret # 0 THEN BadExitCode(ret, args)
                ELSE ""]

\* The message of the CalledProcessError of subprocess.check_output.
CalledProcessError(ret, args) ==
    "Command " \o Join(args, " ") \o " returned non-zero exit status " \o ToString(ret)

\* callo(args, logger), lines 381-385: check_output raises CalledProcessError
\* on a non-zero exit code.
callo(args, pid, exists, ret) ==
    [event  |-> [op |-> "Popen", what |-> args, cmds |-> <<>>, pid |-> pid,
                 result |-> IF exists THEN "exited" ELSE "FileNotFoundError",
                 ret |-> IF exists THEN ret ELSE -1, slept |-> FALSE],
     log    |-> <<Logged("info", Join(args, " "))>>,
     raised |-> IF ~exists THEN "FileNotFoundError"
                ELSE IF ret # 0 THEN CalledProcessError(ret, args)
                ELSE ""]

\* A dump_info that has made no call yet.
Entered == [calls |-> <<>>, log |-> <<>>, raised |-> "", written |-> {}]

\* The run r of a dump_info after the call c.
AfterCall(r, c) ==
    [calls |-> Append(r.calls, c.event), log |-> r.log \o c.log,
     raised |-> c.raised, written |-> r.written]

\* The run r after the messages msgs were logged.
AfterLog(r, msgs) == [r EXCEPT !.log = r.log \o msgs]

\* get_dump_ext, lines 115-117, 190-192 and 304-306.
get_dump_ext(dumper) == IF dumper = "WindowsDumper" THEN s_mdmp ELSE s_core

\* "-ex" before every command, lines 298-299.
RECURSIVE ExArgs(_)
ExArgs(cmds) ==
    IF cmds = <<>> THEN <<>> ELSE <<"-ex", Head(cmds)>> \o ExArgs(Tail(cmds))

---------------------------------------------------------------------------
(* dumper.py: the dump_info of every dumper. t is the host the call runs on
   and the options it runs with: t.has is the set of directories that hold the
   program looked for, t.dirs the directories of the Windows Kits that exist,
   t.exits the exit codes of the calls in order, t.version what lldb --version
   prints, t.writes whether a core command the debugger ran left its file,
   t.debugger_output the list options.debugger_output. *)

\* The values of options.debugger_output.
DebuggerOutputs == {<<"stdout">>, <<"stdout", "file">>}

\* get_process_logger that names a log file whatever the output is.
get_process_logger_always_file(debugger_output, pinfo) ==
    [mongo_process_filename |->
         <<"d","e","b","u","g","g","e","r","_">> \o SplitExtRoot(pinfo.name) \o <<"_">>
             \o StrInt(pinfo.pid) \o <<".","l","o","g">>,
     handlers |-> debugger_output]

\* get_process_logger(debugger_output, pinfo), hang_analyzer.py lines 36-53,
\* on a record that has the attributes name and pid: mongo_process_filename
\* is "debugger_%s_%d.log" % (os.path.splitext(pinfo.name)[0], pinfo.pid) when
\* 'file' is in debugger_output and None, written <<>>, otherwise.
get_process_logger(debugger_output, pinfo) ==
    [mongo_process_filename |->
         IF InList("file", debugger_output)
         THEN <<"d","e","b","u","g","g","e","r","_">> \o SplitExtRoot(pinfo.name) \o <<"_">>
                  \o StrInt(pinfo.pid) \o <<".","l","o","g">>
         ELSE <<>>,
     handlers |-> SelectSeq(<<"stdout", "file">>,
                            LAMBDA h : InList(h, debugger_output))]

\* "dump_%s_%d.%s" in place of "dump_%s.%d.%s".
DumpFile_underscore(name, pid, ext) ==
    <<"d","u","m","p","_">> \o name \o <<"_">> \o StrInt(pid) \o <<".">> \o ext

\* "dump_%s.%d.%s" % (name, pid, ext), lines 92, 162 and 219.
DumpFile(name, pid, ext) ==
    <<"d","u","m","p","_">> \o name \o <<".">> \o StrInt(pid) \o <<".">> \o ext

\* The file a core command of the call wrote.
Written(take_dump, t, dump_file) == IF take_dump /\ t.writes THEN {dump_file} ELSE {}

\* GDBDumper.dump_info, lines 204-301; logger is the logger line 213 of
\* hang_analyzer.py builds for the process.
GDBDumper_dump_info(pid, process_name, take_dump, t, plat) ==
    LET debugger == "gdb"
        dbg == find_program(debugger, <<d_toolchain, d_usr_bin>>, t)
        name == Str(process_name)
        dump_file == DumpFile(process_name, pid, get_dump_ext("GDBDumper"))
        dump_command == IF take_dump THEN "gcore " \o Str(dump_file) ELSE ""
        sunos == plat = "sunos"
        logger == get_process_logger(t.debugger_output,
                                     [name |-> process_name, pid |-> pid])
        base == SplitExtRoot(logger.mongo_process_filename)
        ext == SubSeq(logger.mongo_process_filename, Len(base) + 1,
                      Len(logger.mongo_process_filename))
        raw_stacks_filename == Str(base) \o "_raw_stacks" \o Str(ext)
        raw_stacks_commands ==
            IF logger.mongo_process_filename = <<>> THEN <<>>
            ELSE <<"echo Writing raw stacks to " \o raw_stacks_filename,
                   "set logging redirect on",
                   "set logging file " \o raw_stacks_filename,
                   "set logging on",
                   "thread apply all bt",
                   "set logging off">>
        cmds == <<"set interactive-mode off",
                  "set print thread-events off",
                  "file " \o name,
                  "attach " \o ToString(pid),
                  "info sharedlibrary",
                  "info threads",
                  "set python print-stack full">>
                \o raw_stacks_commands \o
                <<"source mongo.py",
                  "source mongo_printers.py",
                  IF sunos THEN "" ELSE "source mongo_lock.py",
                  "mongodb-uniqstack mongodb-bt-if-active",
                  "set scheduler-locking on",
                  dump_command,
                  IF sunos THEN "" ELSE "mongodb-dump-locks",
                  IF sunos THEN "" ELSE "mongodb-show-locks",
                  IF sunos THEN ""
                  ELSE "mongodb-waitsfor-graph debugger_waitsfor_" \o name \o "_"
                           \o ToString(pid) \o ".gv",
                  IF sunos THEN "" ELSE "mongodb-javascript-stack",
                  IF sunos THEN "" ELSE "mongod-dump-sessions",
                  "mongodb-dump-mutexes",
                  "set confirm off",
                  "quit">>
        r1 == AfterLog(Entered,
                  <<Logged("info", "Debugger " \o dbg \o ", analyzing")>> \o
                  (IF take_dump THEN <<Logged("info", "Dumping core to " \o Str(dump_file))>>
                   ELSE <<>>))
        r2 == AfterCall(r1, call(<<dbg, "--version">>, <<>>, pid, TRUE, t.exits[1]))
        r3 == AfterCall(r2, call(<<dbg, "--quiet", "--nx">> \o ExArgs(cmds), cmds, pid,
                                 TRUE, t.exits[2]))
        r4 == [r3 EXCEPT !.written = Written(take_dump, t, dump_file)]
    IN  IF dbg = "None"
        THEN AfterLog(Entered, <<Logged("warning", "Debugger gdb not found, skipping dumping")>>)
        ELSE IF r2.raised # "" THEN r2
        ELSE IF r4.raised # "" THEN r4
        ELSE AfterLog(r4, <<Logged("info", "Done analyzing")>>)

\* The script of lines 166-173 with the core command before the backtrace.
LLDBDumper_cmds_dump_first(pid, dump_command) ==
    <<"attach -p " \o ToString(pid),
      "target modules list",
      dump_command,
      "thread backtrace all",
      "settings set interpreter.prompt-on-quit false",
      "quit">>

\* LLDBDumper.dump_info, lines 166-173: the script.
LLDBDumper_cmds(pid, dump_command) ==
    <<"attach -p " \o ToString(pid),
      "target modules list",
      "thread backtrace all",
      dump_command,
      "settings set interpreter.prompt-on-quit false",
      "quit">>

\* LLDBDumper.dump_info, lines 129-187.
LLDBDumper_dump_info(pid, process_name, take_dump, t, plat) ==
    LET debugger == "lldb"
        dbg == find_program(debugger, <<d_usr_bin>>, t)
        name == Str(process_name)
        lldb_version == t.version
        too_old == /\ ~Contains(lldb_version, <<"v","e","r","s","i","o","n">>)
                   /\ lldb_major_version(lldb_version) < 340
        dump_file == DumpFile(process_name, pid, get_dump_ext("LLDBDumper"))
        dump_command == IF take_dump THEN "process save-core " \o Str(dump_file) ELSE ""
        cmds == LLDBDumper_cmds(pid, dump_command)
        r1 == AfterLog(Entered, <<Logged("info", "Debugger " \o dbg \o ", analyzing")>>)
        r2 == AfterCall(r1, callo(<<dbg, "--version">>, pid, TRUE, t.exits[1]))
        r3 == AfterLog(r2, <<Logged("info", Str(lldb_version))>>)
        r4 == AfterLog(r3, IF take_dump
                           THEN <<Logged("info", "Dumping core to " \o Str(dump_file))>>
                           ELSE <<>>)
        r5 == AfterCall(r4, call(<<"cat", "tf.name">>, cmds, pid, TRUE, t.exits[2]))
        r6 == AfterCall(r5, call(<<dbg, "--source", "tf.name">>, cmds, pid, TRUE,
                                 t.exits[3]))
        r7 == [r6 EXCEPT !.written = Written(take_dump, t, dump_file)]
    IN  IF dbg = "None"
        THEN AfterLog(Entered, <<Logged("warning", "Debugger lldb not found, skipping dumping")>>)
        ELSE IF r2.raised # "" THEN r2
        ELSE IF too_old
        THEN AfterLog(r3, <<Logged("warning", "Debugger lldb is too old, please upgrade to XCode 7.2")>>)
        ELSE IF r5.raised # "" THEN r5
        ELSE IF r7.raised # "" THEN r7
        ELSE AfterLog(r7, <<Logged("info", "Done analyzing")>>)

\* WindowsDumper.dump_info, lines 77-112.
WindowsDumper_dump_info(pid, process_name, take_dump, t, plat) ==
    LET debugger == "cdb.exe"
        dbg == WindowsDumper_find_debugger(debugger, t)
        dump_file == DumpFile(SplitExtRoot(process_name), pid,
                              get_dump_ext("WindowsDumper"))
        dump_command == IF take_dump THEN ".dump /ma " \o Str(dump_file) ELSE ""
        cmds == <<".symfix", ".symopt +0x10", ".reload", "!peb", "lm", dump_command,
                  "!uniqstack -pn", "!cs -l", ".detach", "q">>
        exists == ProgramExists(dbg, debugger, t)
        r1 == AfterLog(Entered,
                  <<Logged("info", "Debugger " \o dbg \o ", analyzing")>> \o
                  (IF take_dump THEN <<Logged("info", "Dumping core to " \o Str(dump_file))>>
                   ELSE <<>>))
        r2 == AfterCall(r1, call(<<dbg, "-c", Join(cmds, ";"), "-p", ToString(pid)>>,
                                 cmds, pid, exists, t.exits[1]))
        r3 == [r2 EXCEPT !.written = IF exists THEN Written(take_dump, t, dump_file)
                                     ELSE {}]
    IN  IF dbg = "None"
        THEN AfterLog(Entered, <<Logged("warning", "Debugger cdb.exe not found, skipping dumping")>>)
        ELSE IF r3.raised # "" THEN r3
        ELSE AfterLog(r3, <<Logged("info", "Done analyzing")>>)

\* JstackDumper.dump_info, lines 327-340.
JstackDumper_dump_info(pid, process_name, t) ==
    LET debugger == "jstack"
        jstack == find_program(debugger, <<d_usr_bin>>, t)
        r1 == AfterLog(Entered, <<Logged("info", "Debugger " \o jstack \o ", analyzing")>>)
        r2 == AfterCall(r1, call(<<jstack, "-l", ToString(pid)>>, <<>>, pid, TRUE,
                                 t.exits[1]))
    IN  IF jstack = "None"
        THEN AfterLog(Entered, <<Logged("warning", "Debugger jstack not found, skipping dumping")>>)
        ELSE IF r2.raised # "" THEN r2
        ELSE AfterLog(r2, <<Logged("info", "Done analyzing")>>)

\* JstackWindowsDumper.dump_info, lines 347-351.
JstackWindowsDumper_dump_info(pid) ==
    AfterLog(Entered, <<Logged("warning", "Debugger jstack not supported, skipping dumping of "
                                              \o ToString(pid))>>)

\* A dump_info that does nothing unless it is to take a dump.
dump_info_only_to_dump(dumper, pid, process_name, take_dump, t, plat) ==
    IF ~take_dump THEN Entered
    ELSE IF dumper = "GDBDumper" THEN GDBDumper_dump_info(pid, process_name, take_dump, t, plat)
    ELSE IF dumper = "LLDBDumper" THEN LLDBDumper_dump_info(pid, process_name, take_dump, t, plat)
    ELSE WindowsDumper_dump_info(pid, process_name, take_dump, t, plat)

\* dumper.dump_info(root_logger, logger, pid, process_name, take_dump) on the
\* object of class dumper: the method of the class is the one called.
dump_info(dumper, pid, process_name, take_dump, t, plat) ==
    IF dumper = "GDBDumper" THEN GDBDumper_dump_info(pid, process_name, take_dump, t, plat)
    ELSE IF dumper = "LLDBDumper" THEN LLDBDumper_dump_info(pid, process_name, take_dump, t, plat)
    ELSE IF dumper = "WindowsDumper"
    THEN WindowsDumper_dump_info(pid, process_name, take_dump, t, plat)
    ELSE IF dumper = "JstackDumper" THEN JstackDumper_dump_info(pid, process_name, t)
    ELSE JstackWindowsDumper_dump_info(pid)

---------------------------------------------------------------------------
(* commands/hang_analyzer.py: the objects execute reads attributes of. *)

\* The attributes of a Python tuple: get_processes builds every record as the
\* plain tuple (pid, pname) (process_list.py, lines 37 and 47).
TupleAttrs == {"count", "index"}

\* The attributes of a Python list: get_dumpers returns the list [dbg, jstack]
\* (dumper.py, line 30).
ListAttrs == {"append", "clear", "copy", "count", "extend", "index", "insert",
              "pop", "remove", "reverse", "sort"}

\* A comprehension that reads pinfo.name though the list has no element.
Comprehension_strict(procs, kept) ==
    IF "name" \notin TupleAttrs THEN [raised |-> "AttributeError", list |-> <<>>]
    ELSE [raised |-> "", list |-> kept]

\* The list comprehensions of lines 211-212, 223 and 235: the guard reads
\* pinfo.name of every element in turn, so on a list of tuples the first
\* element raises AttributeError; kept is the list the guard would keep, on
\* the name a record with that attribute would carry.
Comprehension(procs, kept) ==
    IF procs = <<>> THEN [raised |-> "", list |-> <<>>]
    ELSE IF "name" \notin TupleAttrs THEN [raised |-> "AttributeError", list |-> <<>>]
    ELSE [raised |-> "", list |-> kept]

\* Line 196: the python processes (the elements are unpacked as pairs here).
IsPython(p) == StartsWith(p[2], s_python)
\* Line 196 with == in place of startswith.
PythonList_exact(procs) == SelectSeq(procs, LAMBDA p : p[2] = s_python)

PythonList(procs) == SelectSeq(procs, IsPython)

\* Line 212: not re.match("^(java|python)", pinfo.name)
IsNative(p) == ~(StartsWith(p[2], s_java) \/ StartsWith(p[2], s_python))

\* Line 223: pinfo.name.startswith("java")
IsJava(p) == StartsWith(p[2], s_java)

\* A backend attempt that raised, as the trace records it.
Raised(op, pid, error) ==
    [op |-> op, what |-> "dump_info", pid |-> pid, result |-> error, slept |-> FALSE]

\* Lines 213-220, once per element: dumpers.dbg is read off a list inside the
\* try, so the attempt raises AttributeError, which is trapped; a list with that
\* attribute would be called with four arguments where dump_info takes five,
\* a TypeError trapped the same way. run is [trapped, trace].
RECURSIVE AttachLoop(_, _)
AttachLoop(list, run) ==
    IF list = <<>> THEN run
    ELSE LET pid == Head(list)[1]
             error == IF "dbg" \notin ListAttrs THEN "AttributeError" ELSE "TypeError"
         IN  AttachLoop(Tail(list),
                        [trapped |-> Append(run.trapped, [pid |-> pid, error |-> error]),
                         trace   |-> Append(run.trace, Raised("attach", pid, error))])

\* Lines 224-229, once per element: dumpers.jstack is read off a list.
RECURSIVE JstackLoop(_, _)
JstackLoop(list, run) ==
    IF list = <<>> THEN run
    ELSE LET pid == Head(list)[1]
             error == IF "jstack" \notin ListAttrs THEN "AttributeError" ELSE "TypeError"
         IN  JstackLoop(Tail(list),
                        [trapped |-> Append(run.trapped, [pid |-> pid, error |-> error]),
                         trace   |-> Append(run.trace, Raised("jstack", pid, error))])

\* Lines 236-238, on the first element: pinfo.name and pinfo.pid are read
\* outside any try.
GoLoopError(list) ==
    IF list = <<>> THEN ""
    ELSE IF {"name", "pid"} \subseteq TupleAttrs THEN "" ELSE "AttributeError"

---------------------------------------------------------------------------
(* commands/hang_analyzer.py: the signal-based backend. *)

\* signal_process, lines 143-154: what os.kill did, and the trace entry.
SignalResults == {"delivered", "OSError"}
\* signal_process with time.sleep(5) after the try statement.
signal_process_sleeps_after(pid, signalnum, result) ==
    [op |-> "kill", what |-> signalnum, pid |-> pid, result |-> result,
     slept |-> TRUE]

\* slept is whether time.sleep(5) of line 149 ran: it follows os.kill inside
\* the try, so an os.kill that raises skips it.
signal_process(pid, signalnum, result) ==
    [op |-> "kill", what |-> signalnum, pid |-> pid, result |-> result,
     slept |-> (result = "delivered")]

\* signal_event_object, lines 118-140.
EventResults == {"set", "OpenEvent error", "SetEvent error"}
signal_event_object(pid, result) ==
    [op |-> "event", what |-> "SetEvent", pid |-> pid, result |-> result,
     slept |-> (result # "OpenEvent error")]

\* The except clauses of signal_process with nothing in them.
SignalCaught_none == {}

\* signal_process, lines 150 and 153: the exceptions of os.kill it catches.
SignalCaught == {"OSError", "AttributeError"}

\* signal_process: the exception that leaves it, "" when it returns.
signal_process_raised(result) ==
    IF result = "delivered" \/ result \in SignalCaught THEN "" ELSE result

\* signal_process, lines 148, 151 and 154: what it logs.
signal_process_log(result) ==
    IF result = "delivered" THEN <<Logged("info", "Waiting for process to report")>>
    ELSE IF result = "OSError" /\ result \in SignalCaught
    THEN <<Logged("error", "Hit OS error trying to signal process")>>
    ELSE IF result = "AttributeError" /\ result \in SignalCaught
    THEN <<Logged("error", "Cannot send signal to a process on Windows")>>
    ELSE <<>>

\* signal_event_object, lines 128-130 and 134-139: both win32event.error
\* handlers log at info level; after OpenEvent failed it returns at once.
signal_event_object_log(result) ==
    IF result = "OpenEvent error"
    THEN <<Logged("info", "Exception from win32event.OpenEvent with error")>>
    ELSE IF result = "SetEvent error"
    THEN <<Logged("info", "Exception from win32event.SetEvent with error"),
           Logged("info", "Waiting for process to report")>>
    ELSE <<Logged("info", "Waiting for process to report")>>

\* Lines 235-238: signal_process on every element in turn, results[i] being
\* what os.kill does for the i-th; an exception that leaves signal_process
\* ends the loop. run is [trace, log, raised].
RECURSIVE GoLoop(_, _, _)
GoLoop(list, results, run) ==
    IF list = <<>> \/ run.raised # "" THEN run
    ELSE GoLoop(Tail(list), Tail(results),
                [trace  |-> Append(run.trace,
                                   signal_process(Head(list)[1], "SIGABRT", Head(results))),
                 log    |-> run.log \o signal_process_log(Head(results)),
                 raised |-> signal_process_raised(Head(results))])

---------------------------------------------------------------------------
(* commands/hang_analyzer.py: DebugExtractor. *)

\* _extracted_files_to_copy, lines 98-99: the extensions and the binaries, in
\* the order of the two loops.
SymbolExts == << <<"d","e","b","u","g">>, <<"d","S","Y","M">>, <<"p","d","b">> >>
SymbolBinaries == << <<"m","o","n","g","o">>, <<"m","o","n","g","o","d">>,
                     <<"m","o","n","g","o","s">> >>

\* '{file}.{ext}' of line 100.
SymbolName(file, ext) == file \o <<".">> \o ext

\* os.path.join('dist-test', 'bin', name), line 100: the directory, then the
\* characters of the name. os.path.basename of it is its Tail.
BinPath(name) == <<"dist-test/bin/">> \o name

\* The haystacks of lines 98-100, in the order the loops make them.
Haystacks ==
    [k \in 1..(Len(SymbolExts) * Len(SymbolBinaries)) |->
        BinPath(SymbolName(SymbolBinaries[((k - 1) % Len(SymbolBinaries)) + 1],
                           SymbolExts[((k - 1) \div Len(SymbolBinaries)) + 1]))]

\* _extracted_files_to_copy, lines 96-105, in the directory dir: the pairs
\* (needle, basename of needle in the working directory) of the haystacks that
\* glob finds, from the k-th haystack on.
RECURSIVE extracted_files_to_copy(_, _)
extracted_files_to_copy(dir, k) ==
    IF k > Len(Haystacks) THEN <<>>
    ELSE (IF Haystacks[k] \in DOMAIN dir
          THEN << <<Haystacks[k], Tail(Haystacks[k])>> >>
          ELSE <<>>) \o extracted_files_to_copy(dir, k + 1)

\* The directory dir with the file name holding content.
WriteFile(dir, name, content) ==
    [n \in DOMAIN dir \cup {name} |-> IF n = name THEN content ELSE dir[n]]

\* shutil.unpack_archive, line 87: every member the archive gives up is written
\* under dist-test/bin, over what was there.
RECURSIVE unpack_archive(_, _, _)
unpack_archive(dir, a, members) ==
    IF members = {} THEN dir
    ELSE LET m == CHOOSE n \in members : TRUE
         IN  unpack_archive(WriteFile(dir, BinPath(m), a.members[m]), a,
                            members \ {m})

\* The loop of lines 88-94 with the test of line 89 left out: every file is
\* copied, over a destination that exists as well.
RECURSIVE copy_symbols_over(_, _, _)
copy_symbols_over(dir, a, pairs) ==
    IF pairs = <<>> THEN [files |-> dir, raised |-> ""]
    ELSE LET src == Head(pairs)[1]
             dest == Head(pairs)[2]
         IN  IF dest \in a.unreadable
             THEN [files |-> dir, raised |-> "OSError"]
             ELSE copy_symbols_over(WriteFile(dir, dest, dir[src]), a, Tail(pairs))

\* The loop of lines 88-94: a destination that exists is skipped (lines 89-92),
\* any other is copied from its source (line 93); shutil.copy raises on a source
\* it cannot open, before it makes the destination, and the loop ends there.
RECURSIVE copy_symbols(_, _, _)
copy_symbols(dir, a, pairs) ==
    IF pairs = <<>> THEN [files |-> dir, raised |-> ""]
    ELSE LET src == Head(pairs)[1]
             dest == Head(pairs)[2]
         IN  IF dest \in DOMAIN dir
             THEN copy_symbols(dir, a, Tail(pairs))
             ELSE IF dest \in a.unreadable
             THEN [files |-> dir, raised |-> "OSError"]
             ELSE copy_symbols(WriteFile(dir, dest, dir[src]), a, Tail(pairs))

\* _exxtract_tar, lines 83-94: unpack_archive, which raises on an archive it
\* cannot read to the end (after the members in a.unpacked were written), then
\* the copies.
exxtract_tar(dir, a) ==
    LET unpacked == unpack_archive(dir, a, a.unpacked)
    IN  IF a.unpacked # DOMAIN a.members
        THEN [files |-> unpacked, raised |-> "ReadError"]
        ELSE copy_symbols(unpacked, a, extracted_files_to_copy(unpacked, 1))

\* extract_debug_symbols without the try of lines 73-81.
extract_debug_symbols_uncaught(dir, a) ==
    IF ~a.exists
    THEN [symbols |-> "no archive", raised |-> "", files |-> dir,
          log |-> <<Logged("info", "Debug-symbols archive-file does not exist")>>]
    ELSE LET x == exxtract_tar(dir, a)
         IN  IF x.raised = ""
             THEN [symbols |-> "extracted", raised |-> "", files |-> x.files,
                   log |-> <<>>]
             ELSE [symbols |-> "error", raised |-> x.raised, files |-> x.files,
                   log |-> <<>>]

\* DebugExtractor.extract_debug_symbols, lines 58-81, in the directory dir with
\* the archive a: returns at line 72 when the archive is not there; every
\* Exception of _exxtract_tar is caught and logged as a warning.
extract_debug_symbols(dir, a) ==
    IF ~a.exists
    THEN [symbols |-> "no archive", raised |-> "", files |-> dir,
          log |-> <<Logged("info", "Debug-symbols archive-file does not exist")>>]
    ELSE LET x == exxtract_tar(dir, a)
         IN  IF x.raised = ""
             THEN [symbols |-> "extracted", raised |-> "", files |-> x.files,
                   log |-> <<>>]
             ELSE [symbols |-> "error", raised |-> "", files |-> x.files,
                   log |-> <<Logged("warning", "Error when extracting")>>]

\* The archive mongo-debugsymbols.tgz of the working directory: whether it is
\* there, the content of each symbol file in it, the members unpack_archive
\* writes (all of them unless it raises), the symbol files shutil.copy cannot
\* open.
NoArchive == [exists |-> FALSE, members |-> <<>>, unpacked |-> {}, unreadable |-> {}]
GoodArchive ==
    [exists |-> TRUE,
     members |-> WriteFile(<<>>, SymbolName(SymbolBinaries[2], SymbolExts[1]), 1),
     unpacked |-> {SymbolName(SymbolBinaries[2], SymbolExts[1])},
     unreadable |-> {}]
BadArchive == [GoodArchive EXCEPT !.unpacked = {}]

---------------------------------------------------------------------------
(* HangAnalyzer.execute *)

\* An exception leaves execute: nothing after the raising line runs.
Raise(e) ==
    /\ pc' = "done"
    /\ outcome' = <<"raised", e>>

\* Line 186: DebugExtractor.extract_debug_symbols, called outside any try.
Prepare ==
    /\ pc = "prepare"
    /\ LET r == extract_debug_symbols(files, archive)
       IN  /\ symbols' = r.symbols
           /\ files' = r.files
           /\ log' = log \o r.log
           /\ IF r.raised # ""
              THEN Raise(r.raised)
              ELSE pc' = "dumpers" /\ UNCHANGED outcome
    /\ UNCHANGED <<dumpers, processes, missing_pids, todo, trace,
                   trapped_exceptions>>
    /\ UNCHANGED <<configVars, quota, checks, callVars, libVars>>

\* Line 187.
GetDumpers ==
    /\ pc = "dumpers"
    /\ dumpers' = get_dumpers(platform)
    /\ pc' = "discover"
    /\ UNCHANGED <<symbols, processes, missing_pids, todo, trace,
                   trapped_exceptions, outcome, log>>
    /\ UNCHANGED <<configVars, quotaVars, callVars, libVars>>

\* Lines 189-196: get_processes, whose exceptions are not caught, and the list
\* of the python stage.
Discover ==
    /\ pc = "discover"
    /\ LET e == EnumerationError(platform, ps_runs)
           r == get_processes(table, process_ids, interesting_processes,
                              process_match, selfPid)
       IN  IF e # ""
           THEN /\ Raise(e)
                /\ UNCHANGED <<processes, missing_pids, todo, log>>
           ELSE /\ processes' = r.processes
                /\ missing_pids' = r.missing
                /\ log' = log \o r.log
                /\ todo' = PythonList(r.processes)
                /\ pc' = "python"
                /\ UNCHANGED outcome
    /\ UNCHANGED <<symbols, dumpers, trace, trapped_exceptions>>
    /\ UNCHANGED <<configVars, quotaVars, callVars, libVars>>

\* Lines 196-206, one iteration, with the processes listed and matched again
\* before it.
NotifyPython_lists_again ==
    /\ pc = "python"
    /\ todo # <<>>
    /\ LET pid == Head(todo)[1]
       IN  IF platform = "win32"
           THEN \E r \in EventResults :
                    /\ trace' = Append(trace, signal_event_object(pid, r))
                    /\ log' = log \o signal_event_object_log(r)
                    /\ UNCHANGED <<pc, outcome>>
           ELSE \E r \in SignalResults :
                    /\ trace' = Append(trace, signal_process(pid, "SIGUSR1", r))
                    /\ log' = log \o signal_process_log(r)
                    /\ IF signal_process_raised(r) # ""
                       THEN Raise(signal_process_raised(r))
                       ELSE UNCHANGED <<pc, outcome>>
    /\ todo' = Tail(todo)
    /\ processes' = get_processes(table, process_ids, interesting_processes,
                                  process_match, selfPid).processes
    /\ UNCHANGED <<symbols, dumpers, missing_pids, trapped_exceptions>>
    /\ UNCHANGED <<configVars, quotaVars, callVars, libVars>>

\* Lines 196-206, one iteration.
NotifyPython ==
    /\ pc = "python"
    /\ todo # <<>>
    /\ LET pid == Head(todo)[1]
       IN  IF platform = "win32"
           THEN \E r \in EventResults :
                    /\ trace' = Append(trace, signal_event_object(pid, r))
                    /\ log' = log \o signal_event_object_log(r)
                    /\ UNCHANGED <<pc, outcome>>
           ELSE \E r \in SignalResults :
                    /\ trace' = Append(trace, signal_process(pid, "SIGUSR1", r))
                    /\ log' = log \o signal_process_log(r)
                    /\ IF signal_process_raised(r) # ""
                       THEN Raise(signal_process_raised(r))
                       ELSE UNCHANGED <<pc, outcome>>
    /\ todo' = Tail(todo)
    /\ UNCHANGED <<symbols, dumpers, processes, missing_pids,
                   trapped_exceptions>>
    /\ UNCHANGED <<configVars, quotaVars, callVars, libVars>>

\* Lines 208-220: the attach stage.
AttachStage ==
    /\ pc = "python"
    /\ todo = <<>>
    /\ LET c == Comprehension(processes, SelectSeq(processes, IsNative))
           r == AttachLoop(c.list, [trapped |-> <<>>, trace |-> trace])
       IN  IF c.raised # ""
           THEN /\ Raise(c.raised)
                /\ trapped_exceptions' = <<>>
                /\ UNCHANGED trace
           ELSE /\ trapped_exceptions' = r.trapped
                /\ trace' = r.trace
                /\ pc' = "jvm"
                /\ UNCHANGED outcome
    /\ UNCHANGED <<symbols, dumpers, processes, missing_pids, todo, log>>
    /\ UNCHANGED <<configVars, quotaVars, callVars, libVars>>

\* Lines 222-229: the jstack stage.
JvmStage ==
    /\ pc = "jvm"
    /\ LET c == Comprehension(processes, SelectSeq(processes, IsJava))
           r == JstackLoop(c.list, [trapped |-> trapped_exceptions, trace |-> trace])
       IN  IF c.raised # ""
           THEN /\ Raise(c.raised)
                /\ UNCHANGED <<trapped_exceptions, trace>>
           ELSE /\ trapped_exceptions' = r.trapped
                /\ trace' = r.trace
                /\ pc' = "go"
                /\ UNCHANGED outcome
    /\ UNCHANGED <<symbols, dumpers, processes, missing_pids, todo, log>>
    /\ UNCHANGED <<configVars, quotaVars, callVars, libVars>>

\* Lines 231-238: the SIGABRT stage.
GoStage ==
    /\ pc = "go"
    /\ LET IsGo(p) == InList(p[2], go_processes)
           c == Comprehension(processes, SelectSeq(processes, IsGo))
           e == IF c.raised # "" THEN c.raised ELSE GoLoopError(c.list)
       IN  IF e # ""
           THEN /\ Raise(e)
                /\ UNCHANGED <<trace, log>>
           ELSE \E rs \in [1..Len(c.list) -> SignalResults] :
                   LET r == GoLoop(c.list, rs, [trace |-> trace, log |-> log,
                                                raised |-> ""])
                   IN  /\ trace' = r.trace
                       /\ log' = r.log
                       /\ IF r.raised # ""
                          THEN Raise(r.raised)
                          ELSE pc' = "report" /\ UNCHANGED outcome
    /\ UNCHANGED <<symbols, dumpers, processes, missing_pids, todo,
                   trapped_exceptions>>
    /\ UNCHANGED <<configVars, quotaVars, callVars, libVars>>

\* Lines 240-245: the failures are logged, then sys.exit(1) if there is one.
Report ==
    /\ pc = "report"
    /\ pc' = "done"
    /\ outcome' = IF trapped_exceptions # <<>> THEN <<"exit", "1">>
                  ELSE <<"returned", "">>
    /\ log' = log \o [i \in 1..Len(trapped_exceptions) |-> Logged("info", "traceback")]
    /\ UNCHANGED <<symbols, dumpers, processes, missing_pids, todo, trace,
                   trapped_exceptions>>
    /\ UNCHANGED <<configVars, quotaVars, callVars, libVars>>

---------------------------------------------------------------------------
(* commands/hang_analyzer.py: check_dump_quota. *)

\* os.path.normcase: lower case on Windows (ntpath), the name itself elsewhere
\* (cygwin is a posix platform).
NormCase(plat, s) == IF plat = "win32" THEN Lower(s) ELSE s

\* glob.glob("*." + ext), line 110, on the names of the working directory:
\* fnmatch compares case-normalised names, and a name that begins with a dot is
\* matched only by a pattern that begins with a dot.
Glob(names, plat, ext) ==
    {n \in names :
        /\ ~StartsWith(n, <<".">>)
        /\ EndsWith(NormCase(plat, n), NormCase(plat, <<".">> \o ext))}

\* Lines 112-114: the loop that sums os.path.getsize over the files found.
RECURSIVE SizeSum(_, _)
SizeSum(dir, found) ==
    IF found = {} THEN 0
    ELSE LET file_name == CHOOSE n \in found : TRUE
         IN  dir[file_name] + SizeSum(dir, found \ {file_name})

\* check_dump_quota with < in place of <= on line 116.
check_dump_quota_strict(dir, plat, q, ext) ==
    SizeSum(dir, Glob(DOMAIN dir, plat, ext)) < q

\* check_dump_quota(quota, ext), lines 107-116, in the directory dir.
check_dump_quota(dir, plat, q, ext) ==
    SizeSum(dir, Glob(DOMAIN dir, plat, ext)) <= q

---------------------------------------------------------------------------
(* The specification of a run of execute. *)

\* The option values of the runs: the pid lists, the name lists, the go names.
OptIds == {"None", <<2, 3>>}
OptNames == {"None"}
OptGo == {"None", <<s_mongodump>>}

\* The platforms and whether the enumeration tool runs there.
Environments == (Platforms \X {TRUE}) \cup {<<"linux", FALSE>>}

InitRun(start) ==
    /\ pc = start
    /\ symbols = "none"
    /\ dumpers = <<>>
    /\ processes = <<>>
    /\ missing_pids = {}
    /\ todo = <<>>
    /\ trace = <<>>
    /\ trapped_exceptions = <<>>
    /\ outcome = <<"running", "">>
    /\ log = <<>>

\* A host where every tool is in its directory and exits with 0.
WorkingTools ==
    [has |-> {d_usr_bin}, dirs |-> {}, exits |-> <<0, 0, 0>>, version |-> s_lldb_llvm,
     writes |-> TRUE, debugger_output |-> <<"stdout">>]

\* No call(args, logger) is in progress.
NoInvocation ==
    [pc |-> "none", args |-> <<>>, exists |-> TRUE, ret |-> 0, child |-> "none",
     lines |-> 0, unwritten |-> 0, pipe |-> 0, reader |-> "none", logged |-> 0,
     raised |-> ""]

\* No teardown handler, no retry_until_wtimeout call and no logging registry
\* is in use.
LibIdle ==
    /\ handler = <<>>
    /\ retry = <<>>
    /\ registry = <<>>

\* No process logger was built.
NoLogger == [mongo_process_filename |-> <<>>, handlers |-> <<>>]

InitQuotaIdle ==
    /\ files = <<>>
    /\ quota = 0
    /\ checks = <<>>
    /\ process_logger = NoLogger
    /\ invocation = NoInvocation
    /\ LibIdle

Init ==
    /\ \E e \in Environments : platform = e[1] /\ ps_runs = e[2]
    /\ selfPid \in Pids
    /\ table \in Tables
    /\ \E oi \in OptIds, on \in OptNames, og \in OptGo :
          LET c == configure_processes(oi, on, og)
          IN  /\ process_ids = c.process_ids
              /\ interesting_processes = c.interesting_processes
              /\ go_processes = c.go_processes
    /\ process_match = "contains"
    /\ dump_core = TRUE
    /\ tools = WorkingTools
    /\ archive \in {NoArchive, GoodArchive, BadArchive}
    /\ InitRun("prepare")
    /\ InitQuotaIdle

Next ==
    \/ Prepare
    \/ GetDumpers
    \/ Discover
    \/ NotifyPython
    \/ AttachStage
    \/ JvmStage
    \/ GoStage
    \/ Report

Spec == Init /\ [][Next]_vars

---------------------------------------------------------------------------
(* The specification of get_processes as a function of its inputs. *)

\* The requested pid lists and the name lists get_processes is called with.
IdLists == {<<>>, <<1>>, <<2, 1>>, <<3, 3>>}
NameLists == {DefaultInteresting, <<s_mongod>>, <<s_python3, s_java>>,
              <<s_Python3>>, <<>>}
MatchTypes == {"exact", "contains"}

InitMatch ==
    /\ platform = "linux"
    /\ ps_runs = TRUE
    /\ selfPid \in Pids
    /\ table \in Tables
    /\ process_ids \in IdLists
    /\ interesting_processes \in NameLists
    /\ go_processes = <<>>
    /\ process_match \in MatchTypes
    /\ dump_core = TRUE
    /\ tools = WorkingTools
    /\ archive = NoArchive
    /\ InitRun("call")
    /\ InitQuotaIdle

\* A call of get_processes that returns.
CallGetProcesses ==
    /\ pc = "call"
    /\ LET r == get_processes(table, process_ids, interesting_processes,
                              process_match, selfPid)
       IN  /\ processes' = r.processes
           /\ missing_pids' = r.missing
           /\ log' = r.log
    /\ pc' = "returned"
    /\ UNCHANGED <<symbols, dumpers, todo, trace, trapped_exceptions, outcome>>
    /\ UNCHANGED <<configVars, quotaVars, callVars, libVars>>

NextMatch == CallGetProcesses

SpecMatch == InitMatch /\ [][NextMatch]_vars

---------------------------------------------------------------------------
(* The specification of check_dump_quota over a changing directory. *)

\* The most files in the working directory, the largest file, the largest quota.
MaxFiles == 2
MaxSize == 2
MaxQuota == 2

\* The file names of the working directory.
FileNames == {<<"a",".","c","o","r","e">>,
              <<"b",".","c","o","r","e">>,
              <<".","h",".","c","o","r","e">>,
              <<"C",".","M","D","M","P">>,
              <<"c","o","r","e">>}

\* GDBDumper/LLDBDumper.get_dump_ext and WindowsDumper.get_dump_ext.
DumpExts == {s_core, s_mdmp}

InitQuota ==
    /\ platform \in {"linux", "win32"}
    /\ ps_runs = TRUE
    /\ selfPid = 1
    /\ table = <<>>
    /\ process_ids = <<>>
    /\ interesting_processes = <<>>
    /\ go_processes = <<>>
    /\ process_match = "contains"
    /\ dump_core = TRUE
    /\ tools = WorkingTools
    /\ archive = NoArchive
    /\ InitRun("quota")
    /\ files = <<>>
    /\ quota \in 0..MaxQuota
    /\ checks = <<>>
    /\ process_logger = NoLogger
    /\ invocation = NoInvocation
    /\ LibIdle

\* A file appears in the working directory.
AddFile ==
    /\ pc = "quota"
    /\ Cardinality(DOMAIN files) < MaxFiles
    /\ \E n \in FileNames \ DOMAIN files, size \in 1..MaxSize :
          files' = [m \in DOMAIN files \cup {n} |-> IF m = n THEN size ELSE files[m]]
    /\ UNCHANGED <<quota, checks>>
    /\ UNCHANGED <<configVars, runVars, callVars, libVars>>

\* A call check_dump_quota(quota, ext); checks keeps the last two calls.
CheckQuota ==
    /\ pc = "quota"
    /\ \E ext \in DumpExts :
          LET made == [dir |-> files, ext |-> ext,
                       result |-> check_dump_quota(files, platform, quota, ext)]
          IN  checks' = IF checks = <<>> THEN <<made>>
                        ELSE <<checks[Len(checks)], made>>
    /\ UNCHANGED <<files, quota>>
    /\ UNCHANGED <<configVars, runVars, callVars, libVars>>

NextQuota ==
    \/ AddFile
    \/ CheckQuota

SpecQuota == InitQuota /\ [][NextQuota]_vars

---------------------------------------------------------------------------
(* The specification of one dump_info call on the dumper of the platform. *)

\* Lines 216-217 without the call of check_dump_quota.
TakeDump_unchecked(flag, dir, plat, q, dumper) == flag

\* hang_analyzer.py, lines 216-217: `and` evaluates check_dump_quota only when
\* options.dump_core is set.
TakeDump(flag, dir, plat, q, dumper) ==
    flag /\ check_dump_quota(dir, plat, q, get_dump_ext(dumper))

\* The hosts of a platform and the options of a call there. The program is in
\* any of the directories searched on the platform; on Windows any of the kit
\* directories exist, and they all hold the debugger or none does. lldb is
\* run for its version on darwin only, a third program only there, a second
\* one not on Windows, and no program is run after one that failed.
ToolsOf(plat) ==
    {t \in [has : SUBSET ({d_toolchain, d_usr_bin, PathDir} \cup KitDirs),
            dirs : SUBSET KitDirs,
            exits : [1..3 -> ExitCodes], version : LldbVersions,
            writes : BOOLEAN, debugger_output : DebuggerOutputs] :
        /\ plat \in {"linux", "sunos"} =>
               (t.has \subseteq {d_toolchain, d_usr_bin, PathDir} /\ t.dirs = {})
        /\ plat = "darwin" => (t.has \subseteq {d_usr_bin, PathDir} /\ t.dirs = {})
        /\ plat \in {"win32", "cygwin"} =>
               /\ t.has \subseteq {PathDir} \cup KitDirs
               /\ t.has \cap KitDirs \in {{}, t.dirs}
        /\ plat # "darwin" => (t.version = s_lldb_llvm /\ t.exits[3] = 0)
        /\ plat \in {"win32", "cygwin"} => t.exits[2] = 0
        /\ \A i, j \in 1..3 : (i < j /\ t.exits[i] # 0) => t.exits[j] = 0}

\* The working directories a call starts in.
Directories ==
    {<<>>,
     [n \in {<<"a",".","c","o","r","e">>} |-> MaxSize],
     [n \in {<<"C",".","M","D","M","P">>} |-> MaxSize]}

\* The process the call is for, as get_processes returns it.
Targets == {<<2, s_mongod_exe>>, <<3, s_java>>}

\* The dumper of lines 215 and 226 for the record p: dbg for the processes of
\* line 212, jstack for those of line 223.
DumperFor(p, ds) == IF IsJava(p) THEN ds[2] ELSE ds[1]

InitBackend ==
    /\ platform \in ListerPlatforms
    /\ ps_runs = TRUE
    /\ selfPid = 1
    /\ \E p \in Targets : table = <<p>> /\ todo = <<p>> /\ processes = <<p>>
    /\ process_ids = <<>>
    /\ interesting_processes = DefaultInteresting
    /\ go_processes = <<>>
    /\ process_match = "contains"
    /\ dump_core \in BOOLEAN
    /\ tools \in ToolsOf(platform)
    /\ archive = NoArchive
    /\ pc = "backend"
    /\ symbols = "none"
    /\ dumpers = get_dumpers(platform)
    /\ missing_pids = {}
    /\ trace = <<>>
    /\ trapped_exceptions = <<>>
    /\ outcome = <<"running", "">>
    /\ log = <<>>
    /\ files \in Directories
    /\ quota \in 0..MaxQuota
    /\ checks = <<>>
    /\ process_logger = NoLogger
    /\ invocation = NoInvocation
    /\ LibIdle

\* The logger of the process is built (hang_analyzer.py, lines 213 and 224, on
\* a record that has the attributes read) and dump_info is called for the
\* process with the arguments of its signature (dumper.py, lines 35-36 and
\* 327), take_dump computed as on lines 216-217;
\* trace holds the programs it ran, outcome how it ended, checks the
\* check_dump_quota call made for it.
CallDumpInfo ==
    /\ pc = "backend"
    /\ todo # <<>>
    /\ LET p == Head(todo)
           dumper == DumperFor(p, dumpers)
           native == ~IsJava(p)
           ext == get_dump_ext(dumper)
           take_dump == native /\ TakeDump(dump_core, files, platform, quota, dumper)
           r == dump_info(dumper, p[1], p[2], take_dump, tools, platform)
       IN  /\ trace' = r.calls
           /\ log' = r.log
           /\ outcome' = IF r.raised = "" THEN <<"returned", "">>
                         ELSE <<"raised", r.raised>>
           /\ checks' = IF native /\ dump_core
                        THEN <<[dir |-> files, ext |-> ext,
                                result |-> check_dump_quota(files, platform, quota, ext)]>>
                        ELSE <<>>
           /\ files' = [n \in DOMAIN files \cup r.written |->
                           IF n \in r.written THEN MaxSize ELSE files[n]]
           /\ process_logger' = get_process_logger(tools.debugger_output,
                                                   [name |-> p[2], pid |-> p[1]])
    /\ todo' = Tail(todo)
    /\ pc' = "returned"
    /\ UNCHANGED <<symbols, dumpers, processes, missing_pids, trapped_exceptions, quota>>
    /\ UNCHANGED <<configVars, invocation, libVars>>

NextBackend == CallDumpInfo

SpecBackend == InitBackend /\ [][NextBackend]_vars

---------------------------------------------------------------------------
(* The specification of one call(args, logger), dumper.py lines 354-368 and
   process_list.py lines 194-208: the caller, the child process Popen starts
   and the thread of core.pipe.LoggerPipe that reads the child's output.
   invocation.pc is the line the caller is at, child the state of the child
   process, lines the number of lines it prints in all, unwritten those it
   has not written yet, pipe the lines in the pipe, reader the state of the
   LoggerPipe thread, logged the lines it has logged. *)

\* The most lines a tool prints, and the lines the pipe holds before a write
\* to it blocks.
MaxLines == 2
PipeSize == 1

\* The command lines of the calls: a debugger of dumper.py, the ps of
\* process_list.py.
CallArgs == {<<"/usr/bin/gdb", "--version">>, <<"/bin/ps", "-axco", "pid,comm">>}

InitCall ==
    /\ platform = "linux"
    /\ ps_runs = TRUE
    /\ selfPid = 1
    /\ table = <<>>
    /\ process_ids = <<>>
    /\ interesting_processes = DefaultInteresting
    /\ go_processes = <<>>
    /\ process_match = "contains"
    /\ dump_core = TRUE
    /\ tools = WorkingTools
    /\ archive = NoArchive
    /\ InitRun("invocation")
    /\ files = <<>>
    /\ quota = 0
    /\ checks = <<>>
    /\ process_logger = NoLogger
    /\ LibIdle
    /\ \E a \in CallArgs, e \in BOOLEAN, r \in ExitCodes, n \in 0..MaxLines :
          invocation = [NoInvocation EXCEPT !.pc = "Popen", !.args = a, !.exists = e,
                                            !.ret = r, !.lines = n, !.unwritten = n]

\* A step of the call: nothing but invocation changes.
CallStep(after) ==
    /\ invocation' = after
    /\ UNCHANGED <<configVars, runVars, quotaVars, process_logger, libVars>>

\* Lines 356-359: the command line is logged and the child is started with its
\* stdout and stderr on one pipe; Popen raises when the program is not there.
call_Popen ==
    /\ invocation.pc = "Popen"
    /\ CallStep(IF invocation.exists
                THEN [invocation EXCEPT !.pc = "LoggerPipe", !.child = "running"]
                ELSE [invocation EXCEPT !.pc = "raised", !.raised = "FileNotFoundError"])

\* Line 360: the LoggerPipe is built on the child's stdout.
call_LoggerPipe ==
    /\ invocation.pc = "LoggerPipe"
    /\ CallStep([invocation EXCEPT !.pc = "wait_until_started", !.reader = "created"])

\* Line 361: logger_pipe.wait_until_started() returns once the thread runs.
call_wait_until_started ==
    /\ invocation.pc = "wait_until_started"
    /\ invocation.reader \in {"reading", "finished"}
    /\ CallStep([invocation EXCEPT !.pc = "wait"])

\* Line 363: process.wait() returns the exit code once the child has exited.
call_wait ==
    /\ invocation.pc = "wait"
    /\ invocation.child = "exited"
    /\ CallStep([invocation EXCEPT !.pc = "wait_until_finished"])

\* Line 364 left out: the caller goes on while the reader may still read.
call_wait_until_finished_left_out ==
    /\ invocation.pc = "wait_until_finished"
    /\ CallStep([invocation EXCEPT !.pc = "check"])

\* Line 364: logger_pipe.wait_until_finished() returns once the thread has
\* read the pipe to its end.
call_wait_until_finished ==
    /\ invocation.pc = "wait_until_finished"
    /\ invocation.reader = "finished"
    /\ CallStep([invocation EXCEPT !.pc = "check"])

\* Lines 366-368: the exit code is tested; call raises on one that is not 0.
call_check ==
    /\ invocation.pc = "check"
    /\ CallStep(IF invocation.ret # 0
                THEN [invocation EXCEPT !.pc = "raised",
                          !.raised = BadExitCode(invocation.ret, invocation.args)]
                ELSE [invocation EXCEPT !.pc = "returned"])

\* The child writes a line; a write to a full pipe blocks.
child_writes ==
    /\ invocation.child = "running"
    /\ invocation.unwritten > 0
    /\ invocation.pipe < PipeSize
    /\ CallStep([invocation EXCEPT !.unwritten = @ - 1, !.pipe = @ + 1])

\* The child has written all it prints and exits, which closes its end of the
\* pipe.
child_exits ==
    /\ invocation.child = "running"
    /\ invocation.unwritten = 0
    /\ CallStep([invocation EXCEPT !.child = "exited"])

\* The thread of the LoggerPipe begins to run.
reader_starts ==
    /\ invocation.reader = "created"
    /\ CallStep([invocation EXCEPT !.reader = "reading"])

\* The thread reads a line of the pipe and logs it.
reader_reads ==
    /\ invocation.reader = "reading"
    /\ invocation.pipe > 0
    /\ CallStep([invocation EXCEPT !.pipe = @ - 1, !.logged = @ + 1])

\* The thread finds the pipe empty and closed, and ends.
reader_finishes ==
    /\ invocation.reader = "reading"
    /\ invocation.pipe = 0
    /\ invocation.child = "exited"
    /\ CallStep([invocation EXCEPT !.reader = "finished"])

NextCall ==
    \/ call_Popen
    \/ call_LoggerPipe
    \/ call_wait_until_started
    \/ call_wait
    \/ call_wait_until_finished
    \/ call_check
    \/ child_writes
    \/ child_exits
    \/ reader_starts
    \/ reader_reads
    \/ reader_finishes

SpecCall == InitCall /\ [][NextCall]_vars

---------------------------------------------------------------------------
(* The claims. *)

\* The process enumeration of the run works: a lister exists for the platform
\* and its tool runs.
EnumerationWorks ==
    /\ platform \in {"linux", "sunos", "win32", "cygwin", "darwin"}
    /\ ps_runs

\* The stage a trace entry belongs to.
StageOf(entry) ==
    IF entry.what \in {"SIGUSR1", "SetEvent"} THEN "python"
    ELSE IF entry.what = "SIGABRT" THEN "go"
    ELSE entry.op

\* The trace entries of process pid in stage st.
Attempts(pid, st) ==
    {k \in 1..Len(trace) : trace[k].pid = pid /\ StageOf(trace[k]) = st}

\* The stages whose category the record p belongs to.
CategoriesOf(p) ==
    {st \in {"python", "attach", "jstack", "go"} :
        \/ st = "python" /\ StartsWith(p[2], s_python)
        \/ st = "attach" /\ ~StartsWith(p[2], s_python) /\ ~StartsWith(p[2], s_java)
        \/ st = "jstack" /\ StartsWith(p[2], s_java)
        \/ st = "go" /\ InList(p[2], go_processes)}

\* The backend invocations of the run that raised.
BackendFailures ==
    {k \in 1..Len(trace) : trace[k].op \in {"attach", "jstack"} /\ trace[k].result # "ok"}

\* C1: a run over N matched processes in which the backend invocation raises
\* for exactly K of them ends with exactly K recorded failures, exits with
\* code 1 if K > 0 and returns normally if K = 0, and every matched process
\* was attempted.
C1_FailuresAndExitCode ==
    (pc = "done" /\ EnumerationWorks) =>
        LET K == Cardinality(BackendFailures)
        IN  /\ Len(trapped_exceptions) = K
            /\ (K > 0 => outcome = <<"exit", "1">>)
            /\ (K = 0 => outcome = <<"returned", "">>)
            /\ \A i \in 1..Len(processes) :
                  \E k \in 1..Len(trace) : trace[k].pid = processes[i][1]

\* C2: when the run has ended, every matched process was attempted exactly
\* once in the stage of every category it belongs to.
C2_EveryProcessOncePerCategory ==
    (pc = "done" /\ EnumerationWorks) =>
        \A i \in 1..Len(processes) :
            \A st \in CategoriesOf(processes[i]) :
                Cardinality(Attempts(processes[i][1], st)) = 1

\* The records of the table, canonicalized, that an explicit pid list selects.
SelectedByPid ==
    {<<table[i][1], Lower(table[i][2])>> : i \in
        {j \in 1..Len(table) :
            /\ \E k \in 1..Len(process_ids) : process_ids[k] = table[j][1]
            /\ table[j][1] # selfPid}}

\* The elements of a list.
Range(list) == {list[i] : i \in 1..Len(list)}

\* C3: with a non-empty explicit pid list, get_processes returns exactly the
\* enumerated records whose pid is requested and is not the analyzer's own, each
\* once, and the name list and match mode do not change the result: it is the
\* result of the call with no name at all in mode exact.
C3_ExplicitPids ==
    (pc = "returned" /\ process_ids # <<>>) =>
        /\ Range(processes) = SelectedByPid
        /\ Len(processes) = Cardinality(SelectedByPid)
        /\ get_processes(table, process_ids, <<>>, "exact", selfPid).processes = processes

\* A call with explicit pids that drops a requested running pid as the analyzer's
\* own and returns a record no name of the list matches.
C3_Witness ==
    /\ pc = "returned"
    /\ process_ids = <<2, 1>>
    /\ interesting_processes = <<s_mongod>>
    /\ \E i \in 1..Len(table) : table[i][1] = selfPid /\ InList(selfPid, process_ids)
    /\ \E i \in 1..Len(processes) : processes[i][2] = s_java

\* The name of a record as name matching sees it: lower case, extension stripped.
MatchedName(raw) == SplitExtRoot(Lower(raw))

\* C4: matching by name, a record is kept iff its pid is not the analyzer's own
\* and, in mode exact, its lower-cased, extension-stripped name equals a pattern
\* or, in mode contains, a pattern is a substring of that name; nothing else is
\* returned.
C4_NameMatching ==
    (pc = "returned" /\ process_ids = <<>>) =>
        /\ \A i \in 1..Len(table) :
              (<<table[i][1], Lower(table[i][2])>> \in Range(processes)) <=>
                  /\ table[i][1] # selfPid
                  /\ \E k \in 1..Len(interesting_processes) :
                        LET ip == interesting_processes[k]
                            name == MatchedName(table[i][2])
                        IN  \/ process_match = "exact" /\ name = ip
                            \/ /\ process_match = "contains"
                               /\ \E a \in 1..(Len(name) + 1), b \in 0..Len(name) :
                                     SubSeq(name, a, b) = ip
        /\ Range(processes) \subseteq
              {<<table[i][1], Lower(table[i][2])>> : i \in 1..Len(table)}
        /\ Len(processes) = Cardinality(Range(processes))

\* A call in mode exact that keeps mongod.exe for the pattern mongod and drops
\* another process that is not the analyzer.
C4_Witness ==
    /\ pc = "returned"
    /\ process_ids = <<>>
    /\ process_match = "exact"
    /\ interesting_processes = <<s_mongod>>
    /\ \E i \in 1..Len(processes) : processes[i][2] = s_mongod_exe
    /\ \E i \in 1..Len(table) :
          /\ table[i][1] # selfPid
          /\ table[i][2] = s_mongodump
          /\ \A j \in 1..Len(processes) : processes[j][1] # table[i][1]

\* C5: the analyzer's own pid is in no list get_processes returns, whatever the
\* table, the explicit pids or names of the run and the match mode, and no stage
\* signals or attaches to it.
C5_NeverSelf ==
    /\ pc = "discover" =>
          \A m \in MatchTypes :
              \A p \in Range(get_processes(table, process_ids, interesting_processes,
                                           m, selfPid).processes) :
                  p[1] # selfPid
    /\ \A i \in 1..Len(processes) : processes[i][1] # selfPid
    /\ \A k \in 1..Len(trace) : trace[k].pid # selfPid
    /\ \A k \in 1..Len(trapped_exceptions) : trapped_exceptions[k].pid # selfPid

\* The analyzer is itself a python process of the table that the name list
\* matches, and another python process was notified.
C5_Witness ==
    /\ pc = "done"
    /\ process_ids = <<>>
    /\ \E i \in 1..Len(table) : table[i][1] = selfPid /\ table[i][2] = s_Python3
    /\ trace # <<>>

\* The extension of a file name, as os.path.splitext gives it, is "." + ext.
HasExtension(n, ext) ==
    SubSeq(n, Len(SplitExtRoot(n)) + 1, Len(n)) = <<".">> \o ext

\* C6 as stated: every call returned true iff the sizes of all the files with
\* extension ext sum to at most the quota.
C6_AllFilesWithExtension ==
    \A k \in 1..Len(checks) :
        checks[k].result <=>
            SizeSum(checks[k].dir,
                    {n \in DOMAIN checks[k].dir : HasExtension(n, checks[k].ext)}) <= quota

\* The files a call counts: the names that do not begin with a dot and end in
\* "." + ext, upper and lower case taken as equal on Windows.
Counted(dir, ext) ==
    {n \in DOMAIN dir :
        /\ n[1] # "."
        /\ Len(n) > Len(ext)
        /\ LET tail == SubSeq(n, Len(n) - Len(ext), Len(n))
           IN  IF platform = "win32" THEN Lower(tail) = Lower(<<".">> \o ext)
               ELSE tail = <<".">> \o ext}

\* C6, amended: every call returned true iff the sizes of the counted files sum
\* to at most the quota; so of two calls in a row for one extension, the second
\* returns false if the files added in between push that sum over the quota.
C6_CountedFilesWithinQuota ==
    /\ \A k \in 1..Len(checks) :
          checks[k].result <=>
              SizeSum(checks[k].dir, Counted(checks[k].dir, checks[k].ext)) <= quota
    /\ (/\ Len(checks) = 2
        /\ checks[1].ext = checks[2].ext
        /\ SizeSum(checks[2].dir, Counted(checks[2].dir, checks[2].ext)) > quota)
       => ~checks[2].result

\* Two calls in a row for one extension: true, then, a file added, false.
C6_Witness ==
    /\ Len(checks) = 2
    /\ checks[1].ext = checks[2].ext
    /\ checks[1].result
    /\ ~checks[2].result
    /\ DOMAIN checks[1].dir # DOMAIN checks[2].dir

\* The python stage has notified process pid.
PythonNotified(pid) == Attempts(pid, "python") # {}

\* C7: every notification of a matched python process precedes the attach,
\* jstack and SIGABRT stages: a python process not yet notified is still in
\* the python loop's list with the run in the python stage, and no trace entry
\* of another stage precedes a notification.
C7_PythonFirst ==
    /\ \A i \in 1..Len(processes) :
          (StartsWith(processes[i][2], s_python) /\ ~PythonNotified(processes[i][1]))
              => (pc = "python" /\ InList(processes[i], todo))
    /\ \A j, k \in 1..Len(trace) :
          (j < k /\ StageOf(trace[k]) = "python") => StageOf(trace[j]) = "python"

\* A python process was notified, and then the attach stage began on a list
\* that holds another process.
C7_Witness ==
    /\ pc = "done"
    /\ outcome = <<"raised", "AttributeError">>
    /\ \E i \in 1..Len(processes) : PythonNotified(processes[i][1])
    /\ \E i \in 1..Len(processes) : ~StartsWith(processes[i][2], s_python)

\* The stages that acted on process pid.
HandledBy(pid) == {st \in {"python", "attach", "jstack", "go"} : Attempts(pid, st) # {}}

\* The first category of the record p in the order python, native, JVM, go.
FirstCategory(p) ==
    IF StartsWith(p[2], s_python) THEN "python"
    ELSE IF ~StartsWith(p[2], s_java) THEN "attach"
    ELSE "jstack"

\* C9: when the run has ended, every matched process was handled by the stage
\* of exactly one category, the first it belongs to in the order python,
\* native, JVM, go.
C9_ExactlyOneStage ==
    (pc = "done" /\ EnumerationWorks) =>
        \A i \in 1..Len(processes) :
            HandledBy(processes[i][1]) = {FirstCategory(processes[i])}

\* C10: when the enumeration fails, the run ends at get_processes with that
\* exception: no process is signalled, no backend is invoked and no failure is
\* recorded, before it or after it.
C10_EnumerationFailureIsFatal ==
    ~EnumerationWorks =>
        /\ trace = <<>>
        /\ trapped_exceptions = <<>>
        /\ processes = <<>>
        /\ pc \in {"prepare", "dumpers", "discover", "done"}
        /\ pc = "done" => outcome \in {<<"raised", "OSError">>, <<"raised", "SubprocessError">>}

\* The enumeration tool could not be run on a table that holds a python
\* process other than the analyzer, and the run has ended.
C10_Witness ==
    /\ pc = "done"
    /\ ~ps_runs
    /\ outcome[1] = "raised"
    /\ \E i \in 1..Len(table) : table[i][2] = s_Python3 /\ table[i][1] # selfPid

MissingWarned ==
    \E k \in 1..Len(log) :
        /\ log[k].level = "warning"
        /\ log[k].msg = "The following requested process ids are not running"

\* C12: with explicit pids, the pids reported missing are exactly the requested
\* pids that no enumerated process has, so the analyzer's own pid, requested
\* and running, is not among them; the warning is logged iff there is one; and
\* the returned list is the list of the requested running records all the same.
C12_MissingPids ==
    (pc = "returned" /\ process_ids # <<>>) =>
        /\ missing_pids = Range(process_ids) \ {table[i][1] : i \in 1..Len(table)}
        /\ (\E i \in 1..Len(table) : table[i][1] = selfPid) => selfPid \notin missing_pids
        /\ MissingWarned <=> missing_pids # {}
        /\ Range(processes) = SelectedByPid
        /\ Len(processes) = Cardinality(SelectedByPid)
        /\ outcome[1] # "raised"

\* The analyzer's own pid is requested and running, another requested pid is
\* not running: nothing is returned and the warning names the absent pid only.
C12_Witness ==
    /\ pc = "returned"
    /\ process_ids = <<2, 1>>
    /\ selfPid = 1
    /\ \E i \in 1..Len(table) : table[i][1] = 1
    /\ missing_pids = {2}
    /\ processes = <<>>
    /\ MissingWarned

\* C13: when get_processes returns no process, no process is signalled,
\* attached to or dumped, no failure is recorded, and execute returns normally.
C13_NothingMatched ==
    (EnumerationWorks /\ pc \notin {"prepare", "dumpers", "discover"} /\ processes = <<>>) =>
        /\ trace = <<>>
        /\ trapped_exceptions = <<>>
        /\ outcome \in {<<"running", "">>, <<"returned", "">>}
        /\ pc = "done" => outcome = <<"returned", "">>

\* A run on a table that is not empty matched nothing and has returned.
C13_Witness ==
    /\ pc = "done"
    /\ table # <<>>
    /\ processes = <<>>
    /\ outcome = <<"returned", "">>

\* str.upper().
UpperChar(c) ==
    IF \E i \in 1..26 : LowerChars[i] = c
    THEN UpperChars[CHOOSE i \in 1..26 : LowerChars[i] = c]
    ELSE c
Upper(s) == [i \in 1..Len(s) |-> UpperChar(s[i])]

\* The string s in the casing how.
Recased(s, how) ==
    IF how = "lower" THEN Lower(s) ELSE IF how = "upper" THEN Upper(s) ELSE s
Casings == {"lower", "upper", "same"}

\* The process table with the name of every process i in the casing f[i].
RecasedTable(f) == [i \in 1..Len(table) |-> <<table[i][1], Recased(table[i][2], f[i])>>]

\* The returned list does not depend on the casing of the process names.
NameCaseIgnored ==
    \A f \in [1..Len(table) -> Casings] :
        get_processes(RecasedTable(f), <<>>, interesting_processes, process_match,
                      selfPid).processes = processes

\* C14 as stated: matching by name, the returned list is the same for every
\* casing of the process names and for every casing of the patterns.
C14_CaseInsensitive ==
    (pc = "returned" /\ process_ids = <<>>) =>
        /\ NameCaseIgnored
        /\ \A how \in Casings :
              get_processes(table, <<>>,
                            [k \in 1..Len(interesting_processes) |->
                                Recased(interesting_processes[k], how)],
                            process_match, selfPid).processes = processes

\* C14, amended: matching by name, the returned list is the same for every
\* casing of the process names; the patterns are compared as they are given,
\* so a pattern that holds an upper-case letter selects no process.
C14_NameCaseInsensitive ==
    (pc = "returned" /\ process_ids = <<>>) =>
        /\ NameCaseIgnored
        /\ \A k \in 1..Len(interesting_processes) :
              interesting_processes[k] # Lower(interesting_processes[k]) =>
                  get_processes(table, <<>>, <<interesting_processes[k]>>,
                                process_match, selfPid).processes = <<>>

\* The table lists Python3 and the lower-case pattern python3 selects it.
C14_Witness ==
    /\ pc = "returned"
    /\ process_ids = <<>>
    /\ interesting_processes = <<s_python3, s_java>>
    /\ \E i \in 1..Len(table) :
          /\ table[i][2] = s_Python3
          /\ InList(<<table[i][1], s_python3>>, processes)

\* C15 as stated: when the run has ended, the debugger was invoked for every
\* matched process that is neither python nor java, with the dump decision
\* taken from a quota check made at its turn when dumps are configured.
C15_DumpDecisionPerProcess ==
    (pc = "done" /\ EnumerationWorks) =>
        \A i \in 1..Len(processes) :
            IsNative(processes[i]) =>
                /\ \E k \in Attempts(processes[i][1], "attach") :
                      trace[k].result \notin {"AttributeError", "TypeError"}
                /\ dump_core => checks # <<>>

\* The process a dump_info call was made for, and the dumper called.
Target == processes[1]
TargetDumper == DumperFor(Target, dumpers)

\* The call was made for a native process with take_dump false.
DumpSuppressed ==
    /\ pc = "returned"
    /\ ~IsJava(Target)
    /\ ~(dump_core /\ checks[1].result)

\* The core command of dumper for the target, lines 94, 163 and 220.
CoreCommand ==
    IF TargetDumper = "GDBDumper"
    THEN "gcore " \o Str(DumpFile(Target[2], Target[1], s_core))
    ELSE IF TargetDumper = "LLDBDumper"
    THEN "process save-core " \o Str(DumpFile(Target[2], Target[1], s_core))
    ELSE ".dump /ma " \o Str(DumpFile(SplitExtRoot(Target[2]), Target[1], s_mdmp))

\* The command of dumper that prints the stacks of all threads.
StacksCommand ==
    IF TargetDumper = "GDBDumper" THEN "mongodb-uniqstack mongodb-bt-if-active"
    ELSE IF TargetDumper = "LLDBDumper" THEN "thread backtrace all"
    ELSE "!uniqstack -pn"

\* The messages of a log at warning or error level.
Alarms(l) == {l[k] : k \in {j \in 1..Len(l) : l[j].level \in {"warning", "error"}}}

\* C16: a dump_info call with take_dump false runs the same programs, with the
\* same scripts but for the core command, which is left empty, as the call
\* with take_dump true on the same host: the command that prints the thread
\* stacks is in the debugger's script, no core command is, no file is written,
\* and the call raises or warns only where the call with take_dump true does.
C16_OnlyDumpSuppressed ==
    DumpSuppressed =>
        LET ref == dump_info(TargetDumper, Target[1], Target[2], TRUE, tools, platform)
        IN  /\ Len(trace) = Len(ref.calls)
            /\ \A k \in 1..Len(trace) :
                  /\ trace[k].what[1] = ref.calls[k].what[1]
                  /\ trace[k].result = ref.calls[k].result
                  /\ trace[k].ret = ref.calls[k].ret
                  /\ Len(trace[k].cmds) = Len(ref.calls[k].cmds)
                  /\ \A j \in 1..Len(trace[k].cmds) :
                        /\ trace[k].cmds[j] # CoreCommand
                        /\ \/ trace[k].cmds[j] = ref.calls[k].cmds[j]
                           \/ (ref.calls[k].cmds[j] = CoreCommand /\ trace[k].cmds[j] = "")
            /\ (trace # <<>> /\ trace[Len(trace)].cmds # <<>>) =>
                  \E j \in 1..Len(trace[Len(trace)].cmds) :
                      trace[Len(trace)].cmds[j] = StacksCommand
            /\ (outcome[1] = "raised") <=> (ref.raised # "")
            /\ {a.level : a \in Alarms(log)} = {a.level : a \in Alarms(ref.log)}
            /\ Cardinality(Alarms(log)) = Cardinality(Alarms(ref.log))
            /\ DOMAIN files = (IF dump_core THEN DOMAIN checks[1].dir ELSE DOMAIN files)
            /\ \A name \in {Target[2], SplitExtRoot(Target[2])}, ext \in DumpExts :
                  DumpFile(name, Target[1], ext) \notin DOMAIN files

\* The quota was exceeded, the debugger ran its script with the stacks command
\* and dump_info returned.
C16_Witness ==
    /\ pc = "returned"
    /\ ~IsJava(Target)
    /\ dump_core
    /\ ~checks[1].result
    /\ trace # <<>>
    /\ \E j \in 1..Len(trace[Len(trace)].cmds) : trace[Len(trace)].cmds[j] = StacksCommand
    /\ outcome = <<"returned", "">>
    /\ tools.writes

\* The call was made on a host that does not hold the tool of the dumper.
ToolNotOnHost ==
    /\ pc = "returned"
    /\ tools.has = {}
    /\ TargetDumper # "JstackWindowsDumper"

\* C17 as stated: when the tool of the dumper is not on the host, dump_info
\* runs no program, logs a warning and returns.
C17_ToolNotFound ==
    ToolNotOnHost =>
        /\ trace = <<>>
        /\ \E k \in 1..Len(log) : log[k].level = "warning"
        /\ outcome = <<"returned", "">>

\* A program of the call exited with a code other than 0.
BadExits == {k \in 1..Len(trace) : trace[k].result = "exited" /\ trace[k].ret # 0}

\* C18 as stated: a dump_info call in which a program exited with a code other
\* than 0 returns to its caller.
C18_NeverRaises ==
    (pc = "returned" /\ BadExits # {}) => outcome = <<"returned", "">>

\* C18, amended: a program of a dump_info call that exits with a code other
\* than 0 is the last one the call runs; the call ends with the exception of
\* call, whose message holds that exit code and the command line (for the
\* lldb --version of callo, the CalledProcessError of that exit code), after
\* call has logged the exit code as an error; and dump_info raises only so.
C18_BadExitCodeRaised ==
    pc = "returned" =>
        /\ \A k \in BadExits :
              /\ k = Len(trace)
              /\ \/ /\ outcome = <<"raised", BadExitCode(trace[k].ret, trace[k].what)>>
                    /\ \E j \in 1..Len(log) :
                          log[j] = Logged("error", "Bad exit code " \o ToString(trace[k].ret))
                 \/ /\ TargetDumper = "LLDBDumper" /\ k = 1
                    /\ outcome = <<"raised", CalledProcessError(trace[k].ret, trace[k].what)>>
              /\ \A j \in 1..Len(log) : log[j].msg # "Done analyzing"
        /\ (outcome[1] = "raised" /\ \A k \in 1..Len(trace) : trace[k].result = "exited")
               => BadExits # {}

\* gdb printed its version and exited with 2 on the script: dump_info raised.
C18_Witness ==
    /\ pc = "returned"
    /\ TargetDumper = "GDBDumper"
    /\ Len(trace) = 2
    /\ trace[2].ret = 2
    /\ outcome[1] = "raised"

\* The results of a signal or an event that was not delivered.
DeliveryErrors == {"OSError", "AttributeError", "OpenEvent error", "SetEvent error"}

\* The trace entries of signals and events that were not delivered.
FailedDeliveries ==
    {k \in 1..Len(trace) :
        trace[k].op \in {"kill", "event"} /\ trace[k].result \in DeliveryErrors}

\* The step appends signals or events, one of them not delivered.
DeliveryFails ==
    /\ Len(trace') > Len(trace)
    /\ \E k \in (Len(trace) + 1)..Len(trace') :
          trace'[k].op \in {"kill", "event"} /\ trace'[k].result \in DeliveryErrors

C20_ExtractionFailureIgnored ==
    /\ pc = "prepare" => (symbols = "none" /\ trapped_exceptions = <<>>)
    /\ pc \in {"dumpers", "discover"} =>
          (outcome = <<"running", "">> /\ trapped_exceptions = <<>> /\ trace = <<>>)
    /\ symbols = "error" =>
          /\ \E k \in 1..Len(log) : log[k] = Logged("warning", "Error when extracting")
          /\ outcome \in {<<"running", "">>, <<"returned", "">>, <<"exit", "1">>,
                          <<"raised", "AttributeError">>,
                          <<"raised", EnumerationError(platform, ps_runs)>>}
          /\ outcome[2] = "AttributeError" => processes # <<>>
    /\ (EnumerationWorks /\ pc \notin {"prepare", "dumpers", "discover"}) =>
          processes = get_processes(table, process_ids, interesting_processes,
                                    process_match, selfPid).processes

\* The extraction failed, and the run went on to notify a python process.
C20_Witness ==
    /\ symbols = "error"
    /\ pc = "done"
    /\ trace # <<>>
    /\ trace[1].what \in {"SIGUSR1", "SetEvent"}

\* The records of trapped_exceptions of process pid.
TrappedFor(pid) ==
    {k \in 1..Len(trapped_exceptions) : trapped_exceptions[k].pid = pid}

\* C21: when the run has ended, every matched java process was handed to the
\* jstack dumper in exactly one attempt, and a failure is recorded for it
\* exactly when that attempt raised.
C21_JvmStageRunsJstack ==
    (pc = "done" /\ EnumerationWorks) =>
        \A i \in 1..Len(processes) :
            IsJava(processes[i]) =>
                LET a == Attempts(processes[i][1], "jstack")
                IN  /\ Cardinality(a) = 1
                    /\ \A k \in a :
                          (trace[k].result # "ok") <=> (TrappedFor(processes[i][1]) # {})

\* The messages of the log that say jstack is not supported.
NotSupported(pid) ==
    {k \in 1..Len(log) :
        log[k] = Logged("warning", "Debugger jstack not supported, skipping dumping of "
                                       \o ToString(pid))}

\* C22: on Windows, when the run has ended, every matched java process has its
\* "not supported" warning in the log, no tool was started for it, no failure
\* is recorded for it and no exception left the run.
C22_WindowsJvmNotSupported ==
    (pc = "done" /\ ps_runs /\ platform \in {"win32", "cygwin"}) =>
        \A i \in 1..Len(processes) :
            IsJava(processes[i]) =>
                /\ NotSupported(processes[i][1]) # {}
                /\ \A k \in 1..Len(trace) :
                      trace[k].pid = processes[i][1] => trace[k].op # "Popen"
                /\ TrappedFor(processes[i][1]) = {}
                /\ outcome[1] # "raised"

\* The tracebacks the report stage logged.
Emitted == {k \in 1..Len(log) : log[k] = Logged("info", "traceback")}

\* C23: when the enumeration works the run ends in the report stage, which has
\* logged one traceback for every recorded failure, and the run exits with
\* code 1 exactly when a failure is recorded and returns otherwise.
C23_ReportEmitsEveryFailure ==
    (pc = "done" /\ EnumerationWorks) =>
        /\ outcome \in {<<"exit", "1">>, <<"returned", "">>}
        /\ (outcome = <<"exit", "1">>) <=> (trapped_exceptions # <<>>)
        /\ Cardinality(Emitted) = Len(trapped_exceptions)

\* The notifications of the trace: os.kill and SetEvent.
Notifications == {k \in 1..Len(trace) : trace[k].op \in {"kill", "event"}}

\* C30 as the claim states it: time.sleep(5) has run after every notification
\* attempt.
C30_SettleAfterEveryAttempt ==
    \A k \in Notifications : trace[k].slept

\* C30: time.sleep(5) has run after a notification exactly when os.kill
\* returned or the event object was opened; an attempt whose os.kill raised,
\* or whose event could not be opened, is followed by no wait.
C30_SettleAfterDelivery ==
    \A k \in Notifications :
        trace[k].slept <=> trace[k].result \in {"delivered", "set", "SetEvent error"}

\* A delivered notification that was waited for, then a failed one that was
\* not, then the run went on.
C30_Witness ==
    /\ pc = "done"
    /\ \E k \in Notifications :
          /\ trace[k].result = "delivered" /\ trace[k].slept
          /\ k + 1 \in Notifications
          /\ trace[k + 1].result = "OSError" /\ ~trace[k + 1].slept

\* "dump_" + base + "." + pid + "." + the extension of the target's dumper.
DumpNamed(base) ==
    <<"d","u","m","p","_">> \o base \o <<".">> \o StrInt(Target[1]) \o <<".">>
        \o get_dump_ext(TargetDumper)

\* The command that asks the target's debugger to write the dump to file.
DumpCommandTo(file) ==
    IF TargetDumper = "GDBDumper" THEN "gcore " \o Str(file)
    ELSE IF TargetDumper = "LLDBDumper" THEN "process save-core " \o Str(file)
    ELSE ".dump /ma " \o Str(file)

\* The script the debugger of a native target was started with, <<>> if the
\* call did not get that far.
Script == IF trace = <<>> THEN <<>> ELSE trace[Len(trace)].cmds

\* The call was made for a native process with take_dump true and built the
\* debugger's script.
DumpRequested ==
    /\ pc = "returned"
    /\ ~IsJava(Target)
    /\ dump_core /\ checks[1].result
    /\ Script # <<>>

\* The dump of the call is requested to, announced as and written to file,
\* and to no other new file.
DumpGoesTo(file) ==
    /\ \E j \in 1..Len(Script) : Script[j] = DumpCommandTo(file)
    /\ \E k \in 1..Len(log) : log[k] = Logged("info", "Dumping core to " \o Str(file))
    /\ DOMAIN files \ DOMAIN checks[1].dir \subseteq {file}
    /\ (tools.writes /\ outcome[1] = "returned") => file \in DOMAIN files

\* C24 as the claim states it: every native dumper names the dump file
\* dump_<name without its extension>.<pid>.<ext>.
C24_BaseNameStripped ==
    DumpRequested => DumpGoesTo(DumpNamed(SplitExtRoot(Target[2])))

\* C24: the dump file is dump_<name>.<pid>.<ext> with ext the extension of the
\* dumper; name is the process name without its extension for WindowsDumper
\* and the whole process name, extension included, for GDBDumper and
\* LLDBDumper.
C24_DumpFileName ==
    DumpRequested =>
        DumpGoesTo(DumpNamed(IF TargetDumper = "WindowsDumper"
                             THEN SplitExtRoot(Target[2]) ELSE Target[2]))

\* gdb wrote the dump of a process whose name has an extension.
C24_Witness ==
    /\ DumpRequested
    /\ TargetDumper = "GDBDumper"
    /\ Target[2] # SplitExtRoot(Target[2])
    /\ DumpNamed(Target[2]) \in DOMAIN files
    /\ DumpNamed(SplitExtRoot(Target[2])) \notin DOMAIN files

\* "debugger_" + the target's name without its extension + sep + pid + ".log".
LogNamed(sep) ==
    <<"d","e","b","u","g","g","e","r","_">> \o SplitExtRoot(Target[2]) \o sep
        \o StrInt(Target[1]) \o <<".","l","o","g">>

\* 'file' in options.debugger_output
FileRequested == \E i \in 1..Len(tools.debugger_output) : tools.debugger_output[i] = "file"

\* C25 as the claim states it: the log file of the process is
\* debugger_<base name>.<pid>.log when file output is requested, and no name
\* is set otherwise.
C25_LogFileNameDotted ==
    pc = "returned" =>
        process_logger.mongo_process_filename =
            (IF FileRequested THEN LogNamed(<<".">>) ELSE <<>>)

\* C25: the log file of the process is debugger_<base name>_<pid>.log, an
\* underscore before the pid, when file output is requested, and no name is
\* set on the logger otherwise.
C25_LogFileName ==
    pc = "returned" =>
        /\ process_logger.mongo_process_filename =
              (IF FileRequested THEN LogNamed(<<"_">>) ELSE <<>>)
        /\ FileRequested <=> InList("file", process_logger.handlers)

\* A logger with a file was built for a process whose name has an extension.
C25_Witness ==
    /\ pc = "returned"
    /\ FileRequested
    /\ Target[2] # SplitExtRoot(Target[2])
    /\ process_logger.mongo_process_filename = LogNamed(<<"_">>)

\* The place of command c in the script, 0 when it is not there.
Pos(c) ==
    LET at == {j \in 1..Len(Script) : Script[j] = c}
    IN  IF at = {} THEN 0 ELSE CHOOSE j \in at : \A k \in at : j <= k

\* The commands of the target's debugger that attach, list the modules, detach
\* and quit.
AttachCommand ==
    IF TargetDumper = "GDBDumper" THEN "attach " \o ToString(Target[1])
    ELSE IF TargetDumper = "LLDBDumper" THEN "attach -p " \o ToString(Target[1])
    ELSE "attach"
ModulesCommand ==
    IF TargetDumper = "GDBDumper" THEN "info sharedlibrary"
    ELSE IF TargetDumper = "LLDBDumper" THEN "target modules list"
    ELSE "lm"
DetachCommand == IF TargetDumper = "WindowsDumper" THEN ".detach" ELSE "detach"
QuitCommand == IF TargetDumper = "WindowsDumper" THEN "q" ELSE "quit"

\* A native debugger's script was built.
ScriptBuilt == pc = "returned" /\ ~IsJava(Target) /\ Script # <<>>

\* C28 as the claim states it: in every script the core command, when there
\* is one, comes after the command that dumps the thread stacks, and quit is
\* the last command.
C28_DumpNeverPrecedesStacks ==
    ScriptBuilt =>
        /\ Pos(StacksCommand) > 0
        /\ Pos(CoreCommand) > 0 => Pos(StacksCommand) < Pos(CoreCommand)
        /\ Script[Len(Script)] = QuitCommand

\* C28: every script lists the modules before it dumps the thread stacks and
\* ends with quit; it holds the core command exactly when take_dump is true.
\* gdb and lldb attach by a command before anything is listed, request the
\* core after the thread stacks and have no detach command. cdb is attached
\* by its -p argument, requests the minidump after the module list and before
\* the thread stacks, and detaches just before it quits.
C28_ScriptOrderPerBackend ==
    ScriptBuilt =>
        /\ 0 < Pos(ModulesCommand) /\ Pos(ModulesCommand) < Pos(StacksCommand)
        /\ Pos(QuitCommand) = Len(Script)
        /\ (Pos(CoreCommand) > 0) <=> (dump_core /\ checks[1].result)
        /\ TargetDumper \in {"GDBDumper", "LLDBDumper"} =>
              /\ 0 < Pos(AttachCommand) /\ Pos(AttachCommand) < Pos(ModulesCommand)
              /\ Pos(CoreCommand) > 0 => Pos(StacksCommand) < Pos(CoreCommand)
              /\ Pos(DetachCommand) = 0
        /\ TargetDumper = "WindowsDumper" =>
              /\ Pos(AttachCommand) = 0
              /\ \E i \in 1..Len(trace[Len(trace)].what) - 1 :
                    /\ trace[Len(trace)].what[i] = "-p"
                    /\ trace[Len(trace)].what[i + 1] = ToString(Target[1])
              /\ Pos(CoreCommand) > 0 =>
                    /\ Pos(ModulesCommand) < Pos(CoreCommand)
                    /\ Pos(CoreCommand) < Pos(StacksCommand)
              /\ Pos(StacksCommand) < Pos(DetachCommand)
              /\ Pos(DetachCommand) = Len(Script) - 1

\* cdb was given a script whose minidump command precedes the thread stacks.
C28_Witness ==
    /\ ScriptBuilt
    /\ TargetDumper = "WindowsDumper"
    /\ 0 < Pos(CoreCommand)
    /\ Pos(CoreCommand) < Pos(StacksCommand)
    /\ outcome = <<"returned", "">>

\* The program the target's dumper looks for and the directories it names, in
\* the order it names them.
ToolOf ==
    IF TargetDumper = "GDBDumper" THEN "gdb"
    ELSE IF TargetDumper = "LLDBDumper" THEN "lldb"
    ELSE IF TargetDumper = "WindowsDumper" THEN "cdb.exe"
    ELSE "jstack"
WellKnown ==
    IF TargetDumper = "GDBDumper" THEN <<d_toolchain, d_usr_bin>>
    ELSE IF TargetDumper = "WindowsDumper"
    THEN <<KitDir("10"), KitDir("8.1"), KitDir("8.0")>>
    ELSE <<d_usr_bin>>

\* The first of the directories of list that is in the set there, "" if none.
FirstIn(list, there) ==
    LET at == {i \in 1..Len(list) : list[i] \in there}
    IN  IF at = {} THEN "" ELSE list[CHOOSE i \in at : \A j \in at : i <= j]

\* The call started the program of directory loc first, or no program when loc
\* is "".
RanFrom(loc) ==
    IF loc = "" THEN trace = <<>>
    ELSE trace # <<>> /\ trace[1].what[1] = loc \o "/" \o ToolOf

\* A dump_info call that looks for a tool has returned or raised.
Resolved == pc = "returned" /\ TargetDumper # "JstackWindowsDumper"

\* C29 as the claim states it: every dumper runs the tool of the first
\* well-known directory that holds it, and the one of the PATH only when no
\* well-known directory holds it.
C29_DirectoriesBeforePath ==
    Resolved =>
        LET loc == FirstIn(WellKnown, tools.has)
        IN  IF loc # "" THEN RanFrom(loc)
            ELSE IF PathDir \in tools.has THEN RanFrom(PathDir)
            ELSE TRUE

\* C29: GDBDumper, LLDBDumper and JstackDumper run the tool of the first
\* directory they name that holds it, the one of the PATH when none does, and
\* no program when the PATH has none either. WindowsDumper runs the debugger
\* of the PATH when there is one, and otherwise the path of the debugger in
\* the first Windows Kits directory that exists, 10 before 8.1 before 8.0.
C29_ToolResolution ==
    Resolved =>
        IF TargetDumper = "WindowsDumper"
        THEN IF PathDir \in tools.has THEN RanFrom(PathDir)
             ELSE RanFrom(FirstIn(WellKnown, tools.dirs))
        ELSE IF FirstIn(WellKnown, tools.has) # ""
        THEN RanFrom(FirstIn(WellKnown, tools.has))
        ELSE IF PathDir \in tools.has THEN RanFrom(PathDir)
        ELSE RanFrom("")

\* gdb is in /usr/bin and on the PATH and not in the toolchain directory: the
\* one of /usr/bin was run.
C29_Witness ==
    /\ Resolved
    /\ TargetDumper = "GDBDumper"
    /\ tools.has = {d_usr_bin, PathDir}
    /\ trace # <<>>
    /\ trace[1].what[1] = "/usr/bin/gdb"

\* The call has returned, or raised for the exit code of the child.
CallComplete ==
    \/ invocation.pc = "returned"
    \/ invocation.pc = "raised" /\ invocation.raised # "FileNotFoundError"

\* C27: a call that has returned, or raised for a bad exit code, has a child
\* that exited and a reader that was started and has read and logged every
\* line the child printed; the reader is started before the caller waits for
\* the child's exit; and the bad exit code is raised only after the reader has
\* finished.
C27_CompleteAfterExitAndDrain ==
    /\ CallComplete =>
          /\ invocation.child = "exited"
          /\ invocation.reader = "finished"
          /\ invocation.pipe = 0
          /\ invocation.logged = invocation.lines
    /\ invocation.pc \in {"wait", "wait_until_finished", "check"} =>
          invocation.reader \in {"reading", "finished"}
    /\ (invocation.pc = "raised" /\ invocation.raised # "FileNotFoundError") =>
          /\ invocation.ret # 0
          /\ invocation.reader = "finished"

\* A tool printed MaxLines lines and exited with 1: call raised after all of
\* them were logged.
C27_Witness ==
    /\ invocation.pc = "raised"
    /\ invocation.raised = BadExitCode(1, invocation.args)
    /\ invocation.lines = MaxLines
    /\ invocation.logged = MaxLines
    /\ invocation.reader = "finished"


---------------------------------------------------------------------------
(* DebugExtractor.extract_debug_symbols, called more than once in one working
   directory. *)

\* The most calls of extract_debug_symbols in one working directory.
MaxRuns == 2

\* The symbol files of the archives and directories: mongo.debug, mongod.debug
\* and mongo.dSYM.
SymbolFiles == {SymbolName(SymbolBinaries[1], SymbolExts[1]),
                SymbolName(SymbolBinaries[2], SymbolExts[1]),
                SymbolName(SymbolBinaries[1], SymbolExts[2])}

\* The archives: none, or one that holds some of the symbol files, of which
\* unpack_archive writes all, or fewer and raises, and of which at most one
\* cannot be opened by shutil.copy.
Archives ==
    {NoArchive} \cup
    {[exists |-> TRUE, members |-> [n \in S |-> 1], unpacked |-> P, unreadable |-> R] :
        S \in SUBSET SymbolFiles, P \in SUBSET SymbolFiles, R \in SUBSET SymbolFiles}

\* The working directories before the first call: some symbol files are in it
\* already, and some are under dist-test/bin from an earlier unpacking.
Directory(present, earlier) ==
    [n \in DOMAIN present \cup {BinPath(m) : m \in earlier} |->
        IF n \in DOMAIN present THEN present[n] ELSE MaxSize]

InitExtract ==
    /\ platform \in {"linux", "win32"}
    /\ ps_runs = TRUE
    /\ selfPid = 1
    /\ table = <<>>
    /\ process_ids = <<>>
    /\ interesting_processes = <<>>
    /\ go_processes = <<>>
    /\ process_match = "contains"
    /\ dump_core = TRUE
    /\ tools = WorkingTools
    /\ archive \in Archives
    /\ archive.exists =>
          /\ archive.unpacked \subseteq DOMAIN archive.members
          /\ archive.unreadable \subseteq DOMAIN archive.members
          /\ Cardinality(archive.unreadable) <= 1
    /\ InitRun("extract")
    /\ \E D \in SUBSET SymbolFiles :
          \E present \in [D -> 1..MaxSize] :
             \E earlier \in {{}, {SymbolName(SymbolBinaries[1], SymbolExts[2])}} :
                files = Directory(present, earlier)
    /\ quota = 0
    /\ checks = <<>>
    /\ process_logger = NoLogger
    /\ invocation = NoInvocation
    /\ LibIdle

\* A call of DebugExtractor.extract_debug_symbols; trace keeps what it did.
CallExtractDebugSymbols ==
    /\ pc = "extract"
    /\ Len(trace) < MaxRuns
    /\ LET r == extract_debug_symbols(files, archive)
       IN  /\ symbols' = r.symbols
           /\ files' = r.files
           /\ log' = log \o r.log
           /\ trace' = Append(trace, r.symbols)
           /\ IF r.raised # ""
              THEN Raise(r.raised)
              ELSE UNCHANGED <<pc, outcome>>
    /\ UNCHANGED <<dumpers, processes, missing_pids, todo, trapped_exceptions>>
    /\ UNCHANGED <<configVars, quota, checks, callVars, libVars>>

NextExtract == CallExtractDebugSymbols

SpecExtract == InitExtract /\ [][NextExtract]_vars

\* The files of the working directory itself, not those under dist-test/bin,
\* with their contents.
Destinations(dir) == {n \in DOMAIN dir : Head(n) # "dist-test/bin/"}
DestinationState(dir) == [n \in Destinations(dir) |-> dir[n]]

\* C31: a call of extract_debug_symbols leaves every file that is in the
\* working directory already there with the content it had, and a call after
\* the first leaves the files of the working directory and their contents
\* exactly as the call before it left them.
C31_ExtractionIdempotent ==
    [][(pc = "extract" /\ trace' # trace) =>
          /\ \A n \in Destinations(files) :
                n \in Destinations(files') /\ files'[n] = files[n]
          /\ trace # <<>> => DestinationState(files') = DestinationState(files)]_vars

\* Two calls were made; the archive unpacked; one symbol file was copied from
\* it, and another was in the directory before with another content than the
\* archive's and still has it.
C31_Witness ==
    /\ Len(trace) = 2
    /\ symbols = "extracted"
    /\ \E n \in DOMAIN archive.members, m \in DOMAIN archive.members :
          /\ n # m
          /\ n \in DOMAIN files /\ files[n] = archive.members[n]
          /\ m \in DOMAIN files /\ files[m] # archive.members[m]


---------------------------------------------------------------------------
(* A run of execute on a host whose processes come and go while it runs. *)

\* After get_processes returned, processes exit and a process starts: the
\* table of the host becomes another one, of one process at most. execute does
\* not look at it again.
TableChanges ==
    /\ pc \in {"python", "jvm", "go", "report"}
    /\ \E t \in Tables :
          /\ Len(t) <= 1
          /\ t # table
          /\ table' = t
    /\ UNCHANGED <<platform, ps_runs, selfPid, process_ids, interesting_processes,
                   go_processes, process_match, dump_core, tools, archive>>
    /\ UNCHANGED <<runVars, quotaVars, callVars, libVars>>

InitStages ==
    /\ platform \in {"linux", "win32"}
    /\ ps_runs = TRUE
    /\ selfPid = 1
    /\ table \in Tables
    /\ LET c == configure_processes("None", "None", "None")
       IN  /\ process_ids = c.process_ids
           /\ interesting_processes = c.interesting_processes
           /\ go_processes = c.go_processes
    /\ process_match = "contains"
    /\ dump_core = TRUE
    /\ tools = WorkingTools
    /\ archive = GoodArchive
    /\ InitRun("prepare")
    /\ InitQuotaIdle

NextStages ==
    \/ Prepare
    \/ GetDumpers
    \/ Discover
    \/ NotifyPython
    \/ AttachStage
    \/ JvmStage
    \/ GoStage
    \/ Report
    \/ TableChanges

SpecStages == InitStages /\ [][NextStages]_vars

\* The place of a stage in a run.
StageRank(at) ==
    CASE at = "prepare" -> 1
      [] at = "dumpers" -> 2
      [] at = "discover" -> 3
      [] at = "python" -> 4
      [] at = "jvm" -> 5
      [] at = "go" -> 6
      [] at = "report" -> 7
      [] at = "done" -> 8

\* seq with its first entries left out is tail.
IsSuffix(tail, seq) ==
    /\ Len(tail) <= Len(seq)
    /\ SubSeq(seq, Len(seq) - Len(tail) + 1, Len(seq)) = tail

\* C32: no step of a run goes back to an earlier stage; the extraction is over
\* when the processes are listed; the matched list is assigned by the one step
\* that leaves the discovery and by no other, whatever the process table of the
\* host becomes afterwards; and the python stage goes through the python
\* processes of that list, in its order, notifying no other process.
C32_StagesLinear ==
    [][/\ StageRank(pc') >= StageRank(pc)
       /\ (pc = "discover" /\ pc' # pc) => symbols # "none"
       /\ processes' # processes => (pc = "discover" /\ pc' = "python")
       /\ pc' = "python" => IsSuffix(todo', PythonList(processes'))
       /\ \A k \in 1..Len(trace') :
             \E i \in 1..Len(processes') : processes'[i][1] = trace'[k].pid]_vars

\* After the discovery a matched python process left the table of the host and
\* another started, and the python stage notified the one that was matched.
C32_Witness ==
    /\ pc = "python"
    /\ Len(trace) = 1
    /\ \A i \in 1..Len(table) : table[i][1] # trace[1].pid
    /\ \E i \in 1..Len(table) :
          /\ IsPython(<<table[i][1], Lower(table[i][2])>>)
          /\ \A j \in 1..Len(processes) : processes[j][1] # table[i][1]


---------------------------------------------------------------------------
(* The loop of hang_analyzer.py, lines 213-220, over native processes, with
   dump_info called with the arguments of its signature. *)

\* The lists of the loop: the pids above that of the analyzer, in order, each
\* a mongod.
NativeLists ==
    {[i \in 1..n |-> <<i + 1, s_mongod_exe>>] : n \in 1..(MaxPid - 1)}

InitDumps ==
    /\ platform \in {"linux", "win32"}
    /\ ps_runs = TRUE
    /\ selfPid = 1
    /\ \E list \in NativeLists : table = list /\ todo = list /\ processes = list
    /\ process_ids = <<>>
    /\ interesting_processes = DefaultInteresting
    /\ go_processes = <<>>
    /\ process_match = "contains"
    /\ dump_core \in BOOLEAN
    /\ tools \in {t \in ToolsOf(platform) :
                     /\ t.has # {}
                     /\ t.exits = <<0, 0, 0>>
                     /\ t.version = s_lldb_llvm
                     /\ t.debugger_output = <<"stdout">>}
    /\ archive = NoArchive
    /\ pc = "attach"
    /\ symbols = "none"
    /\ dumpers = get_dumpers(platform)
    /\ missing_pids = {}
    /\ trace = <<>>
    /\ trapped_exceptions = <<>>
    /\ outcome = <<"running", "">>
    /\ log = <<>>
    /\ files = <<>>
    /\ quota \in 0..MaxQuota
    /\ checks = <<>>
    /\ process_logger = NoLogger
    /\ invocation = NoInvocation
    /\ LibIdle

\* One iteration of lines 213-220: the quota is looked at (lines 216-217), then
\* dump_info runs; the dump it writes has any size; an exception is trapped
\* (lines 218-220).
AttachIteration ==
    /\ pc = "attach"
    /\ todo # <<>>
    /\ LET p == Head(todo)
           dumper == DumperFor(p, dumpers)
           take_dump == TakeDump(dump_core, files, platform, quota, dumper)
           r == dump_info(dumper, p[1], p[2], take_dump, tools, platform)
       IN  /\ trace' = trace \o r.calls
           /\ log' = log \o r.log
           /\ trapped_exceptions' =
                 IF r.raised = "" THEN trapped_exceptions
                 ELSE Append(trapped_exceptions, [pid |-> p[1], error |-> r.raised])
           /\ checks' = IF dump_core
                        THEN Append(checks, [dir |-> files, ext |-> get_dump_ext(dumper),
                                             result |-> take_dump])
                        ELSE checks
           /\ \E size \in 1..MaxSize :
                 files' = [n \in DOMAIN files \cup r.written |->
                              IF n \in r.written THEN size ELSE files[n]]
           /\ process_logger' = get_process_logger(tools.debugger_output,
                                                   [name |-> p[2], pid |-> p[1]])
    /\ todo' = Tail(todo)
    /\ pc' = IF Tail(todo) = <<>> THEN "jvm" ELSE "attach"
    /\ UNCHANGED <<symbols, dumpers, processes, missing_pids, outcome, quota>>
    /\ UNCHANGED <<configVars, invocation, libVars>>

NextDumps == AttachIteration

SpecDumps == InitDumps /\ [][NextDumps]_vars

\* The total size of the files of the directory that check_dump_quota counts
\* for the native dumper of the platform.
DumpTotal(dir) == SizeSum(dir, Glob(DOMAIN dir, platform, get_dump_ext(dumpers[1])))

---------------------------------------------------------------------------
(* testing/fixtures/interface.py: Fixture.teardown and FixtureTeardownHandler. *)

\* The most fixtures torn down through one handler, and the most handlers of
\* the logger of a fixture.
MaxFixtures == 2
MaxHandlers == 1

\* What _do_teardown of a fixture does: it returns, or raises
\* errors.ServerFailure, or raises an exception of another class.
TeardownOutcomes == {"returns", "ServerFailure", "OSError"}

\* The fixtures: the name the caller gives for it, what its _do_teardown does,
\* the number of handlers of its logger.
FixtureNames == {"mongod", "mongos"}
Fixtures == [name : FixtureNames, do_teardown : TeardownOutcomes,
             handlers : 0..MaxHandlers]

\* str(err) of the ServerFailure a _do_teardown raises.
ErrorText == "exit code 1"

\* The handlers of the logger of the i-th fixture.
HandlersOf(i, fixture) == {<<i, k>> : k \in 1..fixture.handlers}

\* Fixture.teardown with the loop of lines 99-101 after the try statement, not
\* in a finally clause.
Fixture_teardown_no_finally(i, fixture, finished) ==
    [raised |-> IF fixture.do_teardown = "returns" THEN "" ELSE fixture.do_teardown,
     close_later |-> IF finished /\ fixture.do_teardown = "returns"
                     THEN HandlersOf(i, fixture) ELSE {}]

\* Fixture.teardown(finished, mode), lines 84-101, of the i-th fixture:
\* _do_teardown in a try whose finally clause hands every handler of the logger
\* to logging.flush.close_later when finished is set; what _do_teardown raises
\* leaves teardown after that.
Fixture_teardown(i, fixture, finished) ==
    [raised |-> IF fixture.do_teardown = "returns" THEN "" ELSE fixture.do_teardown,
     close_later |-> IF finished THEN HandlersOf(i, fixture) ELSE {}]

\* "Error while stopping {}: {}".format(name, err), line 282, as its parts.
ErrorWhileStopping(name, err) == <<"Error while stopping ", name, ": ", err>>

\* _add_error_message with the message assigned in both cases.
add_error_message_last_only(message_so_far, message) == message

\* _add_error_message, lines 287-291; None is the empty sequence, which is
\* falsy as None is. "{} - {}".format(self._message, message) as its parts.
add_error_message(message_so_far, message) ==
    IF message_so_far = <<>> THEN message
    ELSE message_so_far \o <<" - ">> \o message

\* FixtureTeardownHandler.teardown without the except clause of line 281.
FixtureTeardownHandler_teardown_uncaught(h, i, fixture) ==
    LET t == Fixture_teardown(i, fixture, FALSE)
    IN  IF t.raised = ""
        THEN [success |-> h.success, message |-> h.message, returned |-> "True",
              raised |-> "", close_later |-> t.close_later,
              log |-> <<Logged("info", "Stopping"), Logged("info", "Successfully stopped")>>]
        ELSE [success |-> h.success, message |-> h.message, returned |-> "",
              raised |-> t.raised, close_later |-> t.close_later,
              log |-> <<Logged("info", "Stopping")>>]

\* FixtureTeardownHandler.teardown(fixture, name, mode), lines 266-285, on the
\* handler h = [success, message]: fixture.teardown(mode=mode) is called with
\* finished at its default False; ServerFailure is caught, any other exception
\* is not.
FixtureTeardownHandler_teardown(h, i, fixture) ==
    LET t == Fixture_teardown(i, fixture, FALSE)
        msg == ErrorWhileStopping(fixture.name, ErrorText)
    IN  IF t.raised = ""
        THEN [success |-> h.success, message |-> h.message, returned |-> "True",
              raised |-> "", close_later |-> t.close_later,
              log |-> <<Logged("info", "Stopping"), Logged("info", "Successfully stopped")>>]
        ELSE IF t.raised = "ServerFailure"
        THEN [success |-> FALSE, message |-> add_error_message(h.message, msg),
              returned |-> "False", raised |-> "", close_later |-> t.close_later,
              log |-> <<Logged("info", "Stopping"), Logged("warning", msg)>>]
        ELSE [success |-> h.success, message |-> h.message, returned |-> "",
              raised |-> t.raised, close_later |-> t.close_later,
              log |-> <<Logged("info", "Stopping")>>]

\* FixtureTeardownHandler.__init__, lines 245-253, for a caller that is to tear
\* down the fixtures of the list all: next is the one it is at, calls what the
\* calls made so far did, close_later the handlers handed to close_later.
NewHandler(all) ==
    [success |-> TRUE, message |-> <<>>, all |-> all, next |-> 1, calls |-> <<>>,
     close_later |-> {}]

InitTeardown ==
    /\ platform = "linux"
    /\ ps_runs = TRUE
    /\ selfPid = 1
    /\ table = <<>>
    /\ process_ids = <<>>
    /\ interesting_processes = <<>>
    /\ go_processes = <<>>
    /\ process_match = "contains"
    /\ dump_core = TRUE
    /\ tools = WorkingTools
    /\ archive = NoArchive
    /\ InitRun("teardown")
    /\ files = <<>>
    /\ quota = 0
    /\ checks = <<>>
    /\ process_logger = NoLogger
    /\ invocation = NoInvocation
    /\ \E n \in 0..MaxFixtures : \E all \in [1..n -> Fixtures] : handler = NewHandler(all)
    /\ retry = <<>>
    /\ registry = <<>>

\* The caller tears the next fixture down through the handler; an exception
\* that leaves teardown leaves the caller as well.
CallHandlerTeardown ==
    /\ pc = "teardown"
    /\ handler.next <= Len(handler.all)
    /\ LET fixture == handler.all[handler.next]
           r == FixtureTeardownHandler_teardown(handler, handler.next, fixture)
       IN  /\ handler' = [handler EXCEPT
                             !.success = r.success,
                             !.message = r.message,
                             !.next = @ + 1,
                             !.close_later = @ \cup r.close_later,
                             !.calls = Append(@, [of |-> "handler", fixture |-> handler.next,
                                                  finished |-> FALSE,
                                                  returned |-> r.returned,
                                                  raised |-> r.raised])]
           /\ log' = log \o r.log
           /\ IF r.raised # "" THEN Raise(r.raised) ELSE UNCHANGED <<pc, outcome>>
    /\ UNCHANGED <<symbols, dumpers, processes, missing_pids, todo, trace,
                   trapped_exceptions>>
    /\ UNCHANGED <<configVars, quotaVars, callVars, retry, registry>>

\* The caller calls teardown of the next fixture itself, with finished set or
\* not.
CallFixtureTeardown ==
    /\ pc = "teardown"
    /\ handler.next <= Len(handler.all)
    /\ \E finished \in BOOLEAN :
          LET fixture == handler.all[handler.next]
              r == Fixture_teardown(handler.next, fixture, finished)
          IN  /\ handler' = [handler EXCEPT
                                !.next = @ + 1,
                                !.close_later = @ \cup r.close_later,
                                !.calls = Append(@, [of |-> "fixture",
                                                     fixture |-> handler.next,
                                                     finished |-> finished,
                                                     returned |-> IF r.raised = "" THEN "None"
                                                                  ELSE "",
                                                     raised |-> r.raised])]
              /\ IF r.raised # "" THEN Raise(r.raised) ELSE UNCHANGED <<pc, outcome>>
    /\ UNCHANGED <<symbols, dumpers, processes, missing_pids, todo, trace,
                   trapped_exceptions, log>>
    /\ UNCHANGED <<configVars, quotaVars, callVars, retry, registry>>

NextTeardown ==
    \/ CallHandlerTeardown
    \/ CallFixtureTeardown

SpecTeardown == InitTeardown /\ [][NextTeardown]_vars

\* was_successful(), lines 255-257, and get_error_message(), lines 259-264.
was_successful == handler.success
get_error_message == handler.message

\* The calls of the handler's teardown in which the fixture raised
\* ServerFailure, in the order they were made.
FailedTeardowns ==
    SelectSeq(handler.calls,
              LAMBDA c : c.of = "handler"
                         /\ handler.all[c.fixture].do_teardown = "ServerFailure")

\* The messages of the calls of the list, joined by " - ".
RECURSIVE JoinedMessages(_)
JoinedMessages(failed) ==
    IF failed = <<>> THEN <<>>
    ELSE IF Len(failed) = 1
    THEN ErrorWhileStopping(handler.all[failed[1].fixture].name, ErrorText)
    ELSE JoinedMessages(SubSeq(failed, 1, Len(failed) - 1)) \o <<" - ">>
         \o ErrorWhileStopping(handler.all[failed[Len(failed)].fixture].name, ErrorText)

\* C34: was_successful() holds exactly when no teardown made through the
\* handler raised ServerFailure, and never holds again once it does not;
\* get_error_message() is None exactly when was_successful() holds, and is
\* otherwise the messages of the failed teardowns, in their order, joined by
\* " - ".
C34_HandlerRecordsFailures ==
    /\ [](/\ was_successful <=> FailedTeardowns = <<>>
          /\ get_error_message = <<>> <=> was_successful
          /\ get_error_message = JoinedMessages(FailedTeardowns))
    /\ [][~was_successful => ~was_successful']_vars

\* Two teardowns through the handler raised ServerFailure.
C34_Witness ==
    /\ Len(FailedTeardowns) = 2
    /\ ~was_successful
    /\ Len(get_error_message) = 9

\* C35: a call of the handler's teardown returns True when the fixture's
\* teardown returns and False when it raises ServerFailure, which does not
\* leave the call; an exception of another class leaves it, and the success
\* flag and the message are then what they were; the fixture after one whose
\* teardown raised ServerFailure can still be torn down.
C35_ServerFailureContained ==
    [][(handler'.calls # handler.calls
        /\ handler'.calls[Len(handler'.calls)].of = "handler") =>
          LET c == handler'.calls[Len(handler'.calls)]
              did == handler.all[c.fixture].do_teardown
          IN  /\ c.raised # "ServerFailure"
              /\ did = "returns" => (c.returned = "True" /\ c.raised = "")
              /\ did = "ServerFailure" =>
                    /\ c.returned = "False" /\ c.raised = ""
                    /\ pc' = "teardown"
              /\ did \notin {"returns", "ServerFailure"} =>
                    /\ c.raised = did
                    /\ handler'.success = handler.success
                    /\ handler'.message = handler.message]_vars

\* The first teardown raised ServerFailure, the second fixture was torn down
\* all the same, and an exception of another class left that call.
C35_Witness ==
    /\ Len(handler.calls) = 2
    /\ handler.calls[1].of = "handler" /\ handler.calls[1].returned = "False"
    /\ handler.calls[2].of = "handler" /\ handler.calls[2].raised = "OSError"
    /\ outcome = <<"raised", "OSError">>
    /\ ~handler.success

\* C36: a call of Fixture.teardown hands the handlers of the fixture's logger
\* to close_later when finished is set, all of them and whether _do_teardown
\* returns or raises, and none when finished is not set; what _do_teardown
\* raises leaves the call.
C36_HandlersClosedIffFinished ==
    [][handler'.calls # handler.calls =>
          LET c == handler'.calls[Len(handler'.calls)]
              fixture == handler.all[c.fixture]
          IN  /\ c.finished =>
                    handler'.close_later =
                        handler.close_later \cup HandlersOf(c.fixture, fixture)
              /\ ~c.finished => handler'.close_later = handler.close_later
              /\ c.of = "fixture" =>
                    c.raised = (IF fixture.do_teardown = "returns" THEN ""
                                ELSE fixture.do_teardown)]_vars

\* teardown was called with finished set on a fixture whose _do_teardown
\* raised: its handler was handed to close_later and the exception left the
\* call.
C36_Witness ==
    /\ handler.calls # <<>>
    /\ LET c == handler.calls[Len(handler.calls)]
       IN  /\ c.of = "fixture" /\ c.finished /\ c.raised = "ServerFailure"
           /\ <<c.fixture, 1>> \in handler.close_later
    /\ outcome = <<"raised", "ServerFailure">>


---------------------------------------------------------------------------
(* testing/fixtures/interface.py: ReplFixture.retry_until_wtimeout, lines
   180-213. The clock is counted in ticks; retry.pc is the line the call is
   at, now what time.time() returns, calls what insert_fn was called with and
   how each call ended. *)

\* AWAIT_REPL_TIMEOUT_MINS * 60 of line 192, the latest time of the clock, and
\* the most calls of insert_fn, in ticks and calls.
AwaitTicks == 2
MaxTime == 4
MaxCalls == 3

\* How a call of insert_fn ends: it returns, or raises one of the pymongo
\* errors of lines 199, 206 and 210, or an exception that is no PyMongoError.
InsertResults == {"returns", "ConnectionFailure", "WTimeoutError", "PyMongoError",
                  "ValueError"}

InitRetry ==
    /\ platform = "linux"
    /\ ps_runs = TRUE
    /\ selfPid = 1
    /\ table = <<>>
    /\ process_ids = <<>>
    /\ interesting_processes = <<>>
    /\ go_processes = <<>>
    /\ process_match = "contains"
    /\ dump_core = TRUE
    /\ tools = WorkingTools
    /\ archive = NoArchive
    /\ InitRun("retry")
    /\ files = <<>>
    /\ quota = 0
    /\ checks = <<>>
    /\ process_logger = NoLogger
    /\ invocation = NoInvocation
    /\ handler = <<>>
    /\ retry = [pc |-> "deadline", now |-> 0, deadline |-> 0, remaining |-> 0,
                checked |-> 0, calls |-> <<>>, raised |-> "", log |-> <<>>]
    /\ registry = <<>>

\* A step of retry_until_wtimeout: only retry changes.
RetryStep(after) ==
    /\ pc = "retry"
    /\ retry' = after
    /\ UNCHANGED <<configVars, runVars, quotaVars, callVars, handler, registry>>

\* Time passes, while the call is at any line and while insert_fn runs.
clock_ticks ==
    /\ retry.pc \notin {"returned", "raised"}
    /\ retry.now < MaxTime
    /\ RetryStep([retry EXCEPT !.now = @ + 1])

\* Line 192.
retry_deadline ==
    /\ retry.pc = "deadline"
    /\ RetryStep([retry EXCEPT !.deadline = retry.now + AwaitTicks, !.pc = "try"])

\* Line 196.
retry_remaining ==
    /\ retry.pc = "try"
    /\ RetryStep([retry EXCEPT !.remaining = retry.deadline - retry.now,
                               !.pc = "insert"])

\* Lines 197-198 and the except clauses of lines 206-213: insert_fn is called
\* with remaining; the loop ends when it returns, ServerFailure is raised for
\* WTimeoutError and for any other PyMongoError, an exception that is none of
\* them leaves the call as it is, and ConnectionFailure goes to line 200.
retry_insert_fn ==
    /\ retry.pc = "insert"
    /\ Len(retry.calls) < MaxCalls
    /\ \E result \in InsertResults :
          LET made == Append(retry.calls, [remaining |-> retry.remaining,
                                           at |-> retry.now, result |-> result])
          IN  RetryStep(
                 CASE result = "returns" ->
                        [retry EXCEPT !.calls = made, !.pc = "returned"]
                   [] result = "ConnectionFailure" ->
                        [retry EXCEPT !.calls = made, !.pc = "except"]
                   [] result = "WTimeoutError" ->
                        [retry EXCEPT !.calls = made, !.pc = "raised",
                                      !.raised = "ServerFailure",
                                      !.log = Append(@, Logged("error",
                                          "Replication of write operation timed out."))]
                   [] result = "PyMongoError" ->
                        [retry EXCEPT !.calls = made, !.pc = "raised",
                                      !.raised = "ServerFailure"]
                   [] OTHER ->
                        [retry EXCEPT !.calls = made, !.pc = "raised",
                                      !.raised = result])

\* Lines 199-205: the except clause of ConnectionFailure reads the clock and
\* raises ServerFailure when the deadline has come; otherwise the loop goes
\* round, to line 196, where the clock is read again.
retry_connection_failure ==
    /\ retry.pc = "except"
    /\ LET remaining == retry.deadline - retry.now
       IN  RetryStep(
              IF remaining <= 0
              THEN [retry EXCEPT !.remaining = remaining, !.checked = retry.now,
                                 !.pc = "raised", !.raised = "ServerFailure",
                                 !.log = Append(@, Logged("error", "Failed to connect"))]
              ELSE [retry EXCEPT !.remaining = remaining, !.checked = retry.now,
                                 !.pc = "try"])

NextRetry ==
    \/ clock_ticks
    \/ retry_deadline
    \/ retry_remaining
    \/ retry_insert_fn
    \/ retry_connection_failure

SpecRetry == InitRetry /\ [][NextRetry]_vars

\* C37: every call of insert_fn but the last ended in ConnectionFailure and was
\* followed by a look at the clock before the deadline; the call returns after
\* the first call of insert_fn that returns; ServerFailure is raised after a
\* ConnectionFailure seen at or after the deadline, and after WTimeoutError or
\* another PyMongoError with no further call; no call of insert_fn follows a
\* ConnectionFailure seen at or after the deadline; and insert_fn is never
\* called with a remaining time that is not positive.
C37_RetryWithinDeadline ==
    /\ \A k \in 1..(Len(retry.calls) - 1) : retry.calls[k].result = "ConnectionFailure"
    /\ (retry.pc = "try" /\ retry.calls # <<>>) => retry.checked < retry.deadline
    /\ retry.pc = "returned" <=>
          (retry.calls # <<>> /\ retry.calls[Len(retry.calls)].result = "returns")
    /\ (retry.pc = "raised" /\ retry.calls[Len(retry.calls)].result = "ConnectionFailure") =>
          (retry.raised = "ServerFailure" /\ retry.checked >= retry.deadline)
    /\ (retry.calls # <<>>
        /\ retry.calls[Len(retry.calls)].result \in {"WTimeoutError", "PyMongoError"}) =>
          (retry.pc = "raised" /\ retry.raised = "ServerFailure")
    /\ \A k \in 1..Len(retry.calls) : retry.calls[k].remaining > 0

\* insert_fn failed to connect before the deadline, the clock reached the
\* deadline after line 200 had looked at it, and insert_fn was called again,
\* with a remaining time of zero.
C37_CalledAtDeadline ==
    /\ Len(retry.calls) = 2
    /\ retry.calls[1].result = "ConnectionFailure"
    /\ retry.checked < retry.deadline
    /\ retry.calls[2].remaining <= 0


---------------------------------------------------------------------------
(* logging/loggers.py: REGISTRY, new_job_logger, new_fixture_logger and
   new_test_logger. A build id or test id is a positive number; 0 is None, what
   the server answers when it gives no id. *)

\* The most jobs, the largest id the buildlogger server gives, and the most
\* calls of the three functions.
MaxJobs == 2
MaxBuildId == 2
MaxLoggerCalls == 3

Jobs == 0..(MaxJobs - 1)
ServerAnswers == 0..MaxBuildId

\* The REGISTRY reg with reg[job_num] = build_id, line 112.
Registered(reg, job_num, build_id) ==
    [j \in DOMAIN reg \cup {job_num} |-> IF j = job_num THEN build_id ELSE reg[j]]

\* new_job_logger with the assignment of line 112 before the if statement of
\* line 97, made with the answer of the server.
new_job_logger_registers_first(reg, server, job_num, answer) ==
    IF server
    THEN IF answer = 0
         THEN [REGISTRY |-> Registered(reg, job_num, answer),
               raised |-> "LoggerRuntimeConfigError", build_id |-> 0]
         ELSE [REGISTRY |-> Registered(reg, job_num, answer), raised |-> "",
               build_id |-> answer]
    ELSE [REGISTRY |-> Registered(reg, job_num, 0), raised |-> "", build_id |-> 0]

\* new_job_logger(test_kind, job_num), lines 89-114, on the REGISTRY reg;
\* server is whether BUILDLOGGER_SERVER is set, answer what its new_build_id
\* returns.
new_job_logger(reg, server, job_num, answer) ==
    IF server
    THEN IF answer = 0
         THEN [REGISTRY |-> reg, raised |-> "LoggerRuntimeConfigError", build_id |-> 0]
         ELSE [REGISTRY |-> Registered(reg, job_num, answer), raised |-> "",
               build_id |-> answer]
    ELSE [REGISTRY |-> Registered(reg, job_num, 0), raised |-> "", build_id |-> 0]

\* new_fixture_logger(fixture_class, job_num), lines 116-118: REGISTRY[job_num]
\* raises KeyError for a job that is not in it; build_id is the one the
\* FixtureLogger is made with.
new_fixture_logger(reg, job_num) ==
    IF job_num \notin DOMAIN reg
    THEN [raised |-> "KeyError", build_id |-> 0]
    ELSE [raised |-> "", build_id |-> reg[job_num]]

\* new_test_logger(..., job_num, job_logger), lines 120-143: a test id is asked
\* for when the registered build id is not None; build_id is the one the
\* handler of line 141 is added with.
new_test_logger(reg, job_num, answer) ==
    IF job_num \notin DOMAIN reg
    THEN [raised |-> "KeyError", build_id |-> 0]
    ELSE IF reg[job_num] # 0 /\ answer = 0
    THEN [raised |-> "LoggerRuntimeConfigError", build_id |-> reg[job_num]]
    ELSE [raised |-> "", build_id |-> reg[job_num]]

InitLoggers ==
    /\ platform = "linux"
    /\ ps_runs = TRUE
    /\ selfPid = 1
    /\ table = <<>>
    /\ process_ids = <<>>
    /\ interesting_processes = <<>>
    /\ go_processes = <<>>
    /\ process_match = "contains"
    /\ dump_core = TRUE
    /\ tools = WorkingTools
    /\ archive = NoArchive
    /\ InitRun("loggers")
    /\ files = <<>>
    /\ quota = 0
    /\ checks = <<>>
    /\ process_logger = NoLogger
    /\ invocation = NoInvocation
    /\ handler = <<>>
    /\ retry = <<>>
    /\ \E server \in BOOLEAN :
          registry = [REGISTRY |-> <<>>, BUILDLOGGER_SERVER |-> server, calls |-> <<>>]

\* A call of one of the functions: only registry changes; calls keeps what was
\* called and how it ended.
LoggerCall(fn, job_num, r, reg) ==
    /\ registry' = [registry EXCEPT
                       !.REGISTRY = reg,
                       !.calls = Append(@, [fn |-> fn, job_num |-> job_num,
                                            raised |-> r.raised,
                                            build_id |-> r.build_id])]
    /\ UNCHANGED <<configVars, runVars, quotaVars, callVars, handler, retry>>

CallNewJobLogger ==
    /\ pc = "loggers"
    /\ Len(registry.calls) < MaxLoggerCalls
    /\ \E job_num \in Jobs, answer \in ServerAnswers :
          LET r == new_job_logger(registry.REGISTRY, registry.BUILDLOGGER_SERVER,
                                  job_num, answer)
          IN  LoggerCall("new_job_logger", job_num, r, r.REGISTRY)

CallNewFixtureLogger ==
    /\ pc = "loggers"
    /\ Len(registry.calls) < MaxLoggerCalls
    /\ \E job_num \in Jobs :
          LoggerCall("new_fixture_logger", job_num,
                     new_fixture_logger(registry.REGISTRY, job_num), registry.REGISTRY)

CallNewTestLogger ==
    /\ pc = "loggers"
    /\ Len(registry.calls) < MaxLoggerCalls
    /\ \E job_num \in Jobs, answer \in ServerAnswers :
          LoggerCall("new_test_logger", job_num,
                     new_test_logger(registry.REGISTRY, job_num, answer),
                     registry.REGISTRY)

NextLoggers ==
    \/ CallNewJobLogger
    \/ CallNewFixtureLogger
    \/ CallNewTestLogger

SpecLoggers == InitLoggers /\ [][NextLoggers]_vars

\* The calls of new_job_logger for job_num that returned.
JobLoggersMade(job_num) ==
    {k \in 1..Len(registry.calls) :
        /\ registry.calls[k].fn = "new_job_logger"
        /\ registry.calls[k].job_num = job_num
        /\ registry.calls[k].raised = ""}

\* C38: REGISTRY has an entry for a job exactly when a call of new_job_logger
\* for it has returned, and the entry is the build id of the last such call,
\* None exactly when no server is configured; a call of new_job_logger that
\* raises leaves REGISTRY as it was; new_fixture_logger and new_test_logger
\* raise for a job without an entry, change nothing in REGISTRY, and make
\* their logger with the build id registered for the job.
C38_RegistryTracksJobLoggers ==
    /\ [](\A job_num \in Jobs :
             /\ job_num \in DOMAIN registry.REGISTRY <=> JobLoggersMade(job_num) # {}
             /\ job_num \in DOMAIN registry.REGISTRY =>
                   /\ \E k \in JobLoggersMade(job_num) :
                         /\ \A j \in JobLoggersMade(job_num) : j <= k
                         /\ registry.calls[k].build_id = registry.REGISTRY[job_num]
                   /\ registry.REGISTRY[job_num] = 0 <=> ~registry.BUILDLOGGER_SERVER)
    /\ [][registry'.calls # registry.calls =>
             LET c == registry'.calls[Len(registry'.calls)]
             IN  /\ c.raised # "" => registry'.REGISTRY = registry.REGISTRY
                 /\ c.fn # "new_job_logger" =>
                       /\ registry'.REGISTRY = registry.REGISTRY
                       /\ c.job_num \notin DOMAIN registry.REGISTRY => c.raised = "KeyError"
                       /\ c.raised = "" =>
                             /\ JobLoggersMade(c.job_num) # {}
                             /\ c.build_id = registry.REGISTRY[c.job_num]]_vars

\* new_job_logger raised for a job and returned for another; new_test_logger
\* then returned for the second, with the registered build id, while the first
\* has no entry.
C38_Witness ==
    /\ Len(registry.calls) = 3
    /\ registry.calls[1].fn = "new_job_logger" /\ registry.calls[1].raised # ""
    /\ registry.calls[2].fn = "new_job_logger" /\ registry.calls[2].raised = ""
    /\ registry.calls[3].fn = "new_test_logger" /\ registry.calls[3].raised = ""
    /\ registry.calls[3].job_num = registry.calls[2].job_num
    /\ registry.calls[3].build_id = registry.REGISTRY[registry.calls[2].job_num]
    /\ registry.calls[1].job_num \notin DOMAIN registry.REGISTRY

=============================================================================
